---- MODULE Spec2Model ----
(***************************************************************************)
(* State-machine model of the Tile BLE client of ha-life360                *)
(* (custom_components/life360/tile_ble.py): TileBleClient and the two     *)
(* high-level operations ring_tile_ble and stop_ring_tile_ble.             *)
(*                                                                         *)
(* Coroutines are cut at their awaits: one action is the synchronous code  *)
(* between two suspension points.  Notification and disconnect callbacks   *)
(* run only while the coroutine is suspended.                              *)
(*                                                                         *)
(* HMAC-SHA256 is modelled symbolically: a digest is the pair (key,        *)
(* message) it was computed from, so two digests are equal exactly when    *)
(* key and message are equal.                                              *)
(***************************************************************************)
EXTENDS Integers, Sequences, FiniteSets, TLC

(***************************************************************************)
(* Bounds of the model.                                                    *)
(***************************************************************************)
MaxOps == 1
MaxCalls == 3
MaxLinks == 2
MaxInflight == 1
MaxTx == 8

(***************************************************************************)
(* Byte strings.  A byte string is a literal part (a sequence of 0..255)   *)
(* followed by at most one slice of an HMAC digest: every frame of the     *)
(* protocol has this shape (payload || signature).                         *)
(***************************************************************************)
Min(a, b) == IF a < b THEN a ELSE b
Max(a, b) == IF a > b THEN a ELSE b

B(s) == [lit |-> s, dig |-> <<>>]
EmptyB == B(<<>>)
RepB(v, n) == B([i \in 1..n |-> v])

DigLen(d) == IF d = <<>> THEN 0 ELSE d[1].hi - d[1].lo
LenB(x) == Len(x.lit) + DigLen(x.dig)

\* a + b of two byte strings (a carries no digest part, or b is empty)
Cat(a, b) ==
    IF LenB(b) = 0 THEN a
    ELSE [lit |-> a.lit \o b.lit, dig |-> b.dig]

\* x[lo:hi] with Python's clamping of the indices
Slice(x, lo, hi) ==
    LET n  == LenB(x)
        l  == Min(lo, n)
        h  == Min(hi, n)
        ll == Len(x.lit)
        lt == IF l >= ll \/ h <= l THEN <<>> ELSE SubSeq(x.lit, l + 1, Min(h, ll))
        dl == IF x.dig = <<>> THEN 0 ELSE x.dig[1].lo + Max(l - ll, 0)
        dh == IF x.dig = <<>> THEN 0 ELSE x.dig[1].lo + (h - ll)
        dg == IF x.dig = <<>> \/ h <= ll \/ h <= l \/ dh <= dl THEN <<>>
              ELSE << [x.dig[1] EXCEPT !.lo = dl, !.hi = dh] >>
    IN  [lit |-> lt, dig |-> dg]

\* x[i] of a byte string, for an index inside the literal part
ByteAt(x, i) == x.lit[i + 1]

\* x[-n:], the last n bytes
Tail4(x) == Slice(x, LenB(x) - 4, LenB(x))

\* the digits of bytes.hex() and of the format 02X
HexLower == <<"0", "1", "2", "3", "4", "5", "6", "7", "8", "9", "a", "b", "c", "d", "e", "f">>
HexUpper == <<"0", "1", "2", "3", "4", "5", "6", "7", "8", "9", "A", "B", "C", "D", "E", "F">>
\* bytes.hex(): two lowercase digits per byte; the digits of a digest part are
\* those of that digest
HexText(x) ==
    [text |-> [i \in 1..(2 * Len(x.lit)) |->
                 IF i % 2 = 1 THEN HexLower[(x.lit[(i + 1) \div 2] \div 16) + 1]
                              ELSE HexLower[(x.lit[i \div 2] % 16) + 1]],
     dig |-> x.dig]
\* _LOGGER.<level>(fmt, value.hex(), ...) at a line of tile_ble.py
LogRecord(line, x) == [line |-> line, text |-> HexText(x)]

StartsWith(x, p) == LenB(x) >= LenB(p) /\ Slice(x, 0, LenB(p)) = p

\* hmac.new(key, msg, hashlib.sha256).digest(): 32 bytes
Hmac(key, msg) == [lit |-> <<>>, dig |-> << [k |-> key, m |-> msg, lo |-> 0, hi |-> 32] >>]

\* x + b'\x00' * (n - len(x))
PadZero(x, n) == IF LenB(x) >= n THEN x ELSE Cat(x, RepB(0, n - LenB(x)))

(***************************************************************************)
(* Protocol constants.                                                     *)
(***************************************************************************)
MEP_CONNECTION_ID == B(<<0, 255, 255, 255, 255>>)
MEP_CONNECTIONLESS == B(<<0, 255, 255, 255, 255>>)
TDI_CMD == 19
RANDA_CMD == 20
CHANNEL_OPEN_CMD == 16
CHANNEL_OPEN_RSP == 18
CHANNEL_CMD == 18
CHANNEL_PAYLOAD == 19
TCU_CMD == 12
TCU_SET == 3
SONG_CMD == 5
SONG_READ_FEATURES == 6
SONG_PLAY == 2
SONG_FLAGS == 1
TRM == 24
STOP_RING == 2
KeyLen == 16
RandALen == 14

(***************************************************************************)
(* Inputs.                                                                 *)
(***************************************************************************)
\* The key the Tile was provisioned with, and the key of some other Tile.
DeviceKey == RepB(1, KeyLen)
OtherKey == RepB(9, KeyLen)

\* auth_key arguments: raw bytes, or a hex string (valid or not).  "n" is the
\* number of bytes the argument holds or decodes to.
KeyInputs ==
    { [form |-> "bytes", n |-> 16], [form |-> "bytes", n |-> 15],
      [form |-> "hex", n |-> 16], [form |-> "badhex", n |-> 0] }

\* bytes.fromhex(auth_key) of a valid hex string / the bytes themselves
KeyBytes(k) == RepB(1, k.n)

\* os.urandom(14): the values a nonce can take in the model
NonceVals == {3, 4}
\* known_auth_method: None (0) or a cached method number
KnownMethods == {0, 1}
\* the arguments of coordinator._ring_tile_ble
RingVolume == 2
RingDuration == 30

(***************************************************************************)
(* State.                                                                  *)
(***************************************************************************)
VARIABLES
    \* the running operation and the position of its coroutine
    op, pc, stack, ret, result, pending, nOps, calls, keyLen,
    \* TileBleClient fields (src: __init__)
    auth_key, known_auth_method, client, device,
    response_event, response_data, response_queue,
    authenticated, rand_a, rand_t, channel_key, channel_byte, channel_data,
    tx_counter, rx_counter,
    \* the BLE driver and the Tile
    links, subscribed, nextLink, inflight, dev,
    \* history
    wire, lastData, signedCtrs, hs, keyOrigin, radio, songErrAfterRing,
    \* scan_for_tile: found_device, the time since the scan started (in check
    \* intervals), whether the scanner runs, the advertisements seen (history)
    \* and the advertisement delivered last (history)
    found_device, elapsed, scanning, seen, heard,
    \* the latest call of _verify_response_hmac (history): the response given,
    \* what it returned, rx_counter before it, whether the response had been
    \* verified before, and the responses verified so far
    vf_response, vf_verified, vf_rx_before, vf_replay, vf_accepted,
    \* several ring_tile_ble invocations at once: the TileBleClient objects made
    \* so far, each invocation's position and client, the number of objects
    \* made, and the invocation that took the latest step (history)
    objs, inv, nextObj, actor,
    \* _tile_id_to_mac and detection_callback on strings: the tile id, what the
    \* derivation gave, the advertisement handed to detection_callback and
    \* whether it set found_device
    mac_id, mac_out, mac_ad, mac_sel,
    \* _build_ring_command by itself: its arguments and the command it returned
    rc_volume, rc_duration, rc_cmd,
    \* the coordinator's ring_device and stop_ring_device: whether tile_ble
    \* imports, BLEAK_AVAILABLE, what the Tile caches hold, the call's position,
    \* operation and provider, what the BLE helper gave, the cloud commands the
    \* call sent, what the call returned and the number of calls so far
    ble_module, bleak_available, tile_auth, cd_pc, cd_op, provider, ble_success,
    cloud, cd_result, cd_calls

drvVars == <<op, pc, stack, ret, result, pending, nOps, calls, keyLen>>
keyVars == <<auth_key, known_auth_method>>
respVars == <<response_event, response_data, response_queue>>
sessVars == <<rand_a, rand_t, channel_key, channel_byte, channel_data>>
ctrVars == <<tx_counter, rx_counter>>
linkVars == <<links, subscribed, nextLink>>
histVars == <<wire, lastData, signedCtrs, hs, keyOrigin, radio, songErrAfterRing>>
scanVars == <<found_device, elapsed, scanning, seen, heard>>
vfVars == <<vf_response, vf_verified, vf_rx_before, vf_replay, vf_accepted>>
twoVars == <<objs, inv, nextObj, actor>>
macVars == <<mac_id, mac_out, mac_ad, mac_sel>>
ringVars == <<rc_volume, rc_duration, rc_cmd>>
coordVars == <<ble_module, bleak_available, tile_auth, cd_pc, cd_op, provider,
               ble_success, cloud, cd_result, cd_calls>>
vars == <<drvVars, keyVars, client, device, respVars, authenticated, sessVars,
          ctrVars, linkVars, inflight, dev, histVars, scanVars, vfVars, twoVars,
          macVars, ringVars, coordVars>>

\* found_device = None
NoAddress == "none"
\* self._client is None
NoClient == 0
\* self._client and self._client.is_connected
IsConnected == client # NoClient /\ client \in links

\* what happened in the latest invocation of authenticate (history): the wire
\* position it started at, the lengths of the TDI response and of auth_data
\* (-1: not received yet), the shape parsed, whether sres_t is the signature of
\* the key's holder, whether it differed from / equalled expected_1, the value
\* returned, the flag at entry, the on_auth_success calls, what
\* _establish_channel got after its write ("none": not there yet, "timeout",
\* "unexpected", "badhmac", "verified")
NoHandshake ==
    [start |-> 0, tdiLen |-> -1, nonceLen |-> -1, shape |-> "none",
     honest |-> FALSE, mismatch |-> FALSE, verified |-> FALSE, res |-> "none",
     wasAuth |-> FALSE, callbacks |-> 0, est |-> "none", timedOut |-> FALSE, log |-> {},
     \* which written frame the notification in _response_data, and each one in
     \* _response_queue, replied to; the responses the steps consumed
     dataSrc |-> <<>>, queueSrc |-> <<>>, took |-> {}]
NoDevice == [ck |-> EmptyB, cb |-> 0, n |-> 0]

\* a text is a sequence of one-character strings
ExampleId == <<"0", "3", "a", "7", "5", "7", "b", "8", "4", "7", "9", "c", "b", "d", "f", "c">>
\* nothing derived yet; no advertisement yet
NoMac == [kind |-> "none", mac |-> <<>>]
NoAd == [address |-> <<>>, uuid |-> FALSE, name |-> <<>>]

\* the TileBleClient objects that may be made, and the ring_tile_ble
\* invocations that may run at the same time
MaxClients == 3
Clients == 1..MaxClients
Invocations == {1, 2}
\* the session fields of a TileBleClient, as __init__ leaves them
NewSession(key) ==
    [auth_key |-> key, rand_a |-> EmptyB, channel_key |-> EmptyB,
     tx_counter |-> 0, rx_counter |-> 0]
\* no object yet
NoSession == NewSession(EmptyB)

\* everything but the channel key and the receive counter
InitOther ==
    /\ op = "none" /\ pc = "idle" /\ stack = <<>> /\ ret = "none"
    /\ result = "none" /\ pending = "none" /\ nOps = 0 /\ calls = 0
    /\ keyLen = KeyLen
    /\ auth_key = EmptyB /\ known_auth_method = 0
    /\ client = NoClient /\ device = FALSE
    /\ response_event = FALSE /\ response_data = EmptyB /\ response_queue = <<>>
    /\ authenticated = FALSE
    /\ rand_a = EmptyB /\ rand_t = EmptyB
    /\ channel_byte = 0 /\ channel_data = EmptyB
    /\ tx_counter = 0
    /\ links = {} /\ subscribed = {} /\ nextLink = 1
    /\ inflight = <<>> /\ dev = NoDevice
    /\ wire = <<>> /\ lastData = EmptyB /\ signedCtrs = <<>> /\ hs = NoHandshake
    /\ keyOrigin = [link |-> 0, verified |-> FALSE]
    /\ radio = FALSE /\ songErrAfterRing = FALSE
    /\ found_device = NoAddress /\ elapsed = 0 /\ scanning = FALSE /\ seen = {}
    /\ heard = <<>>
    /\ vf_response = EmptyB /\ vf_verified = FALSE /\ vf_rx_before = 0
    /\ vf_replay = FALSE /\ vf_accepted = {}
    /\ objs = [c \in Clients |-> NoSession]
    /\ inv = [i \in Invocations |-> [pc |-> "idle", client |-> 0]]
    /\ nextObj = 1 /\ actor = 0
    /\ mac_out = NoMac /\ mac_ad = NoAd /\ mac_sel = FALSE
    /\ rc_cmd = EmptyB
    /\ cd_pc = "idle" /\ cd_op = "none" /\ provider = "none"
    /\ ble_success = "none" /\ cloud = <<>> /\ cd_result = "none" /\ cd_calls = 0

\* the defaults of _build_ring_command: TileVolume.MED, 30 seconds
RingDefaults == rc_volume = "MED" /\ rc_duration = RingDuration
\* tile_ble imports, bleak is installed, key and BLE id of the Tile are cached
CoordDefaults == ble_module = TRUE /\ bleak_available = TRUE /\ tile_auth = "both"

Init ==
    /\ InitOther /\ channel_key = EmptyB /\ rx_counter = 0 /\ mac_id = ExampleId
    /\ RingDefaults /\ CoordDefaults

(***************************************************************************)
(* Calls and returns of the coroutines.                                    *)
(***************************************************************************)
\* return v to the caller
Return(v) == /\ pc' = Head(stack) /\ stack' = Tail(stack) /\ ret' = v
\* call the coroutine starting at `entry`, to continue at `cont`
Call(entry, cont) == /\ pc' = entry /\ stack' = <<cont>> \o stack /\ ret' = "none"

\* TileBleClient.__init__
Construct(key, known) ==
    /\ auth_key' = key /\ known_auth_method' = known
    /\ client' = NoClient /\ device' = FALSE
    /\ response_event' = FALSE /\ response_data' = EmptyB /\ response_queue' = <<>>
    /\ authenticated' = FALSE
    /\ rand_a' = EmptyB /\ rand_t' = EmptyB
    /\ channel_key' = EmptyB /\ channel_byte' = 0 /\ channel_data' = EmptyB
    /\ tx_counter' = 0 /\ rx_counter' = 0
    \* a new client: the driver's links and callbacks of this client, none yet
    /\ links' = {} /\ subscribed' = {} /\ nextLink' = 1
    /\ inflight' = <<>> /\ dev' = NoDevice
    /\ wire' = <<>> /\ lastData' = EmptyB /\ signedCtrs' = <<>> /\ hs' = NoHandshake
    /\ keyOrigin' = [link |-> 0, verified |-> FALSE]
    /\ songErrAfterRing' = FALSE

(***************************************************************************)
(* Signed command codec.                                                   *)
(***************************************************************************)
\* counter.to_bytes(4, byteorder='little')
CounterBytes(c) ==
    << c % 256, (c \div 256) % 256, (c \div 65536) % 256, (c \div 16777216) % 256 >>

\* (variant: the message does not carry the counter)
BuildHmacMessage_NoCounter(counter, cmd_data, is_rx) ==
    PadZero(Cat(B(<<0, 0, 0, 0, IF is_rx THEN 0 ELSE 1, LenB(cmd_data)>>), cmd_data), 32)
\* (variant: the message has the same direction byte both ways)
BuildHmacMessage_NoDirection(counter, cmd_data, is_rx) ==
    PadZero(Cat(B(CounterBytes(counter) \o <<1>> \o <<LenB(cmd_data)>>), cmd_data), 32)
\* (variant: the message is not padded)
BuildHmacMessage_NoPad(counter, cmd_data, is_rx) ==
    Cat(B(CounterBytes(counter) \o <<IF is_rx THEN 0 ELSE 1>> \o <<LenB(cmd_data)>>), cmd_data)
\* TileBleClient._build_hmac_message
BuildHmacMessage(counter, cmd_data, is_rx) ==
    LET direction_byte == IF is_rx THEN 0 ELSE 1
        message == Cat(B(CounterBytes(counter) \o <<direction_byte>> \o <<LenB(cmd_data)>>),
                       cmd_data)
    IN  PadZero(message, 32)

\* signature = hmac.new(self._channel_key, sig_data, hashlib.sha256).digest()[:4]
Signature(key, counter, cmd_payload) ==
    Slice(Hmac(key, BuildHmacMessage(counter, cmd_payload, FALSE)), 0, 4)

\* channel_byte + cmd_payload + signature, signed with the counter given
SignedFrame(cb, key, counter, cmd_payload) ==
    Cat(Cat(B(<<cb>>), cmd_payload), Signature(key, counter, cmd_payload))

\* (variant: the counter is taken back after a success too)
VerifyResponseHmac_NoAdvance(response, key, rx) ==
    IF LenB(response) < 6 THEN <<FALSE, rx>>
    ELSE LET data == Slice(response, 1, LenB(response) - 4)
             expected_hmac == Slice(Hmac(key, BuildHmacMessage(rx + 1, data, TRUE)), 0, 4)
         IN  <<expected_hmac = Tail4(response), rx>>
\* (variant: the counter is not taken back when the digests differ)
VerifyResponseHmac_NoDecrement(response, key, rx) ==
    IF LenB(response) < 6 THEN <<FALSE, rx>>
    ELSE LET data == Slice(response, 1, LenB(response) - 4)
             expected_hmac == Slice(Hmac(key, BuildHmacMessage(rx + 1, data, TRUE)), 0, 4)
         IN  <<expected_hmac = Tail4(response), rx + 1>>
\* TileBleClient._verify_response_hmac: <<verified, rx_counter afterwards>>
VerifyResponseHmac(response, key, rx) ==
    IF LenB(response) < 6 THEN <<FALSE, rx>>
    ELSE LET data_with_channel == Slice(response, 0, LenB(response) - 4)
             received_hmac == Tail4(response)
             data_without_channel == Slice(data_with_channel, 1, LenB(data_with_channel))
             rx1 == rx + 1
             hmac_msg == BuildHmacMessage(rx1, data_without_channel, TRUE)
             expected_hmac == Slice(Hmac(key, hmac_msg), 0, 4)
         IN  IF expected_hmac = received_hmac THEN <<TRUE, rx1>> ELSE <<FALSE, rx1 - 1>>

\* (variant: the nonce is left out of the derivation)
DeriveChannelKey_NoNonce(key, ra, cd, cb, conn_id) ==
    Slice(Hmac(key, Cat(Cat(cd, B(<<cb>>)), conn_id)), 0, 16)
\* TileBleClient._derive_channel_encryption_key
DeriveChannelKey(key, ra, cd, cb, conn_id) ==
    Slice(Hmac(key, Cat(Cat(Cat(ra, cd), B(<<cb>>)), conn_id)), 0, 16)

\* expected_1 of authenticate: HMAC(auth_key, pad16(rand_a) || pad16(rand_t))[4:8]
ExpectedSres(key, ra, rt) ==
    Slice(Hmac(key, Cat(PadZero(ra, 16), PadZero(rt, 16))), 4, 8)

\* TileBleClient._build_ring_command: the payload that is signed
RingPayload(volume, duration_seconds) ==
    B(<<SONG_CMD, SONG_PLAY, SONG_FLAGS, volume, duration_seconds>>)

\* (variant: the stop command without the connectionless header)
BuildStopCommand_Bare == B(<<TRM, STOP_RING>>)
\* TileBleClient._build_stop_command
BuildStopCommand == Cat(MEP_CONNECTIONLESS, B(<<TRM, STOP_RING>>))

(***************************************************************************)
(* The Tile at the other end of the link: what it may answer to a frame.   *)
(* Each element is the notification it emits (EmptyB: none) and its state  *)
(* afterwards.                                                             *)
(***************************************************************************)
NoReply == EmptyB
DevRandT10 == RepB(7, 10)
DevRandT8 == RepB(7, 8)
DevChannelByte == 2
DevChannelData == RepB(8, 3)
DevPrefix == RANDA_CMD + 1

DevSres(key, ra, rt, lo, hi) ==
    Slice(Hmac(key, Cat(PadZero(ra, 16), PadZero(rt, 16))), lo, hi)

NonceReplies(f) ==
    LET ra == Slice(f, 6, LenB(f))
        toa(key) == Cat(Cat(B(<<DevPrefix>>), DevRandT10), DevSres(key, ra, DevRandT10, 4, 8))
        legacy == Cat(Cat(B(<<DevPrefix>>), DevRandT8), DevSres(DeviceKey, ra, DevRandT8, 4, 12))
    IN  { Cat(MEP_CONNECTIONLESS, toa(DeviceKey)),     \* TOA shape, the Tile's key
          Cat(MEP_CONNECTIONLESS, toa(OtherKey)),      \* TOA shape, another Tile
          toa(DeviceKey),                              \* TOA shape without envelope
          Cat(MEP_CONNECTIONLESS, legacy),             \* legacy shape, the Tile's key
          Cat(MEP_CONNECTIONLESS, RepB(7, 14)),        \* 14 bytes
          Cat(MEP_CONNECTIONLESS, RepB(7, 16)) }       \* 16 bytes

DeviceStep(kind, f) ==
    LET same(S) == { [reply |-> r, dev |-> dev] : r \in S }
    IN  CASE kind = "tdi" ->
               same({ Cat(MEP_CONNECTIONLESS, B(<<20, 1, 63>>)), B(<<0>>) })
          [] kind = "nonce" -> same(NonceReplies(f))
          [] kind = "open" ->
               LET ra == Slice(f, 6, LenB(f))
                   ck == DeriveChannelKey(DeviceKey, ra, DevChannelData, DevChannelByte,
                                          MEP_CONNECTION_ID)
               IN  { [reply |-> Cat(Cat(MEP_CONNECTION_ID, B(<<CHANNEL_OPEN_RSP, DevChannelByte>>)),
                                    DevChannelData),
                      dev |-> [ck |-> ck, cb |-> DevChannelByte, n |-> 0]] }
                   \cup same({ Cat(MEP_CONNECTION_ID, B(<<17, DevChannelByte, 8>>)),
                               Cat(MEP_CONNECTION_ID, B(<<CHANNEL_OPEN_RSP>>)) })
          [] kind = "establish" ->
               IF dev.cb = 0 THEN {}
               ELSE LET body == B(<<1, 14, 0>>)
                        rsp(n) == Cat(Cat(B(<<dev.cb>>), body),
                                      Slice(Hmac(dev.ck, BuildHmacMessage(n, body, TRUE)), 0, 4))
                    IN  { [reply |-> rsp(dev.n + 1), dev |-> [dev EXCEPT !.n = dev.n + 1]] }
                        \cup same({ rsp(dev.n + 5), B(<<dev.cb, 2, 0>>) })
          [] kind \in {"song", "ring"} -> same({ B(<<ByteAt(f, 0), SONG_CMD, 32>>) })
          [] kind = "stop" -> same({ Cat(MEP_CONNECTIONLESS, B(<<TRM, STOP_RING>>)) })
          [] OTHER -> {}

\* a successful write_gatt_char(MEP_COMMAND_CHAR_UUID, data) on the open link
\* `ko` is where the channel key in use was derived (unsigned frames: unused)
GattWrite(kind, data, ctr, ko) ==
    /\ radio' = TRUE
    /\ wire' = Append(wire, [kind |-> kind, link |-> client, ctr |-> ctr,
                             keyLink |-> ko.link, keyVerified |-> ko.verified,
                             data |-> data])
    /\ lastData' = data
    /\ signedCtrs' = IF ctr = 0 THEN signedCtrs ELSE Append(signedCtrs, ctr)
    /\ \E d \in DeviceStep(kind, data) \cup {[reply |-> NoReply, dev |-> dev]} :
         /\ dev' = d.dev
         /\ inflight' = IF d.reply = NoReply \/ Len(inflight) >= MaxInflight
                        THEN inflight
                        ELSE Append(inflight, [link |-> client, data |-> d.reply,
                                               re |-> <<calls, Len(wire) + 1>>])

(***************************************************************************)
(* Callbacks, run by the event loop while the coroutine is suspended.      *)
(***************************************************************************)
Suspended ==
    {"api_idle", "rt_scan", "so_scan", "co_establish", "co_notify", "dc",
     "au_tdi_wait", "au_nonce_wait", "au_open_wait", "au_est_wait", "au_sleep",
     "rg_settle", "st_wait"}

CloseLink(l) ==
    /\ links' = links \ {l}
    /\ subscribed' = subscribed \ {l}
    /\ inflight' = SelectSeq(inflight, LAMBDA m : m.link # l)
    /\ UNCHANGED nextLink

RingWritten == \E i \in 1..Len(wire) : wire[i].kind = "ring"

\* TileBleClient._handle_response: a notification is delivered
HandleResponse ==
    /\ pc \in Suspended
    /\ inflight # <<>>
    /\ Head(inflight).link \in subscribed
    /\ LET data == Head(inflight).data IN
         /\ response_data' = data
         /\ response_event' = TRUE
         /\ response_queue' = Append(response_queue, data)
         /\ hs' = [hs EXCEPT !.dataSrc = Head(inflight).re,
                             !.queueSrc = Append(@, Head(inflight).re)]
         /\ songErrAfterRing' =
              (songErrAfterRing \/
                 (RingWritten /\ LenB(data) > 1 /\ ByteAt(data, 0) = channel_byte
                    /\ ByteAt(data, 1) = SONG_CMD))
    /\ inflight' = Tail(inflight)
    /\ UNCHANGED <<drvVars, keyVars, client, device, authenticated, sessVars, ctrVars,
                   linkVars, dev, wire, lastData, signedCtrs, keyOrigin, radio>>
    /\ UNCHANGED <<scanVars, vfVars, twoVars, macVars, ringVars, coordVars>>

\* TileBleClient._handle_disconnect: the Tile (or the radio) drops a link
HandleDisconnect ==
    /\ pc \in Suspended
    /\ \E l \in links : CloseLink(l)
    /\ authenticated' = FALSE
    /\ UNCHANGED <<drvVars, keyVars, client, device, respVars, sessVars, ctrVars,
                   dev, histVars>>
    /\ UNCHANGED <<scanVars, vfVars, twoVars, macVars, ringVars, coordVars>>

(***************************************************************************)
(* TileBleClient.scan_for_tile, connect, disconnect.                       *)
(***************************************************************************)
\* connect(device), up to the end of establish_connection
Connect_Establish ==
    /\ pc = "co_establish"
    /\ radio' = TRUE
    /\ device' = TRUE
    /\ \/ /\ nextLink <= MaxLinks
          /\ client' = nextLink
          /\ links' = links \cup {nextLink}
          /\ nextLink' = nextLink + 1
          /\ dev' = NoDevice
          /\ signedCtrs' = <<>>
          /\ pc' = "co_notify"
          /\ UNCHANGED <<stack, ret, subscribed>>
       \/ \* asyncio.TimeoutError or BleakError: no link
          /\ client' = NoClient
          /\ Return("false")
          /\ UNCHANGED <<linkVars, dev, signedCtrs>>
    /\ UNCHANGED <<op, result, pending, nOps, calls, keyLen, keyVars, respVars,
                   authenticated, sessVars, ctrVars, inflight,
                   wire, lastData, hs, keyOrigin, songErrAfterRing>>
    /\ UNCHANGED <<scanVars, vfVars, twoVars, macVars, ringVars, coordVars>>

\* connect(device), start_notify and the exception handlers
Connect_Notify ==
    /\ pc = "co_notify"
    /\ \/ /\ client \in links
          /\ subscribed' = subscribed \cup {client}
          /\ Return("true")
          /\ UNCHANGED client
       \/ \* start_notify raises BleakError or asyncio.TimeoutError
          /\ client' = NoClient
          /\ Return("false")
          /\ UNCHANGED subscribed
       \/ \* start_notify raises something else: connect raises
          /\ Return("raise")
          /\ UNCHANGED <<client, subscribed>>
    /\ UNCHANGED <<op, result, pending, nOps, calls, keyLen, keyVars, device, respVars,
                   authenticated, sessVars, ctrVars, links, nextLink, inflight, dev,
                   histVars>>
    /\ UNCHANGED <<scanVars, vfVars, twoVars, macVars, ringVars, coordVars>>

\* TileBleClient.disconnect
Disconnect ==
    /\ pc = "dc"
    /\ IF IsConnected THEN CloseLink(client) ELSE UNCHANGED <<linkVars, inflight>>
    /\ client' = NoClient
    /\ authenticated' = FALSE
    /\ Return("none")
    /\ UNCHANGED <<op, result, pending, nOps, calls, keyLen, keyVars, device, respVars,
                   sessVars, ctrVars, dev, histVars>>
    /\ UNCHANGED <<scanVars, vfVars, twoVars, macVars, ringVars, coordVars>>

(***************************************************************************)
(* TileBleClient._send_command and the direct writes.                      *)
(***************************************************************************)
\* _send_command up to its wait.  Not connected: RuntimeError (Raised).  Else the
\* event is cleared and the frame written (Sent); a write that raises makes
\* _send_command return b"" at once (Empty).
SendCommand(kind, data, Sent, Empty, Raised) ==
    IF ~IsConnected
    THEN /\ Raised
         /\ UNCHANGED <<respVars, inflight, dev, wire, lastData, signedCtrs, radio>>
    ELSE /\ response_event' = FALSE
         /\ response_data' = EmptyB
         /\ UNCHANGED response_queue
         /\ \/ GattWrite(kind, data, 0, keyOrigin) /\ Sent
            \/ UNCHANGED <<inflight, dev, wire, lastData, signedCtrs, radio>> /\ Empty

\* _send_command at its wait: the response, or b"" after the 5 s timeout
AwaitedResponse == IF response_event THEN response_data ELSE EmptyB

\* await self._client.write_gatt_char(...) inside a try: written (Sent), or it
\* raises (Failed): no client, link closed, or a GATT error
TryWrite(kind, data, ctr, ko, Sent, Failed) ==
    \/ IsConnected /\ GattWrite(kind, data, ctr, ko) /\ Sent
    \/ UNCHANGED <<inflight, dev, wire, lastData, signedCtrs, radio>> /\ Failed

(***************************************************************************)
(* TileBleClient.authenticate.                                             *)
(***************************************************************************)
TdiCommand == Cat(MEP_CONNECTIONLESS, B(<<TDI_CMD, 1>>))
RandACommand(ra) == Cat(Cat(MEP_CONNECTIONLESS, B(<<RANDA_CMD>>)), ra)
ChannelOpenCommand(ra) == Cat(Cat(MEP_CONNECTION_ID, B(<<CHANNEL_OPEN_CMD>>)), ra)
\* [TCU_CMD, TCU_SET] + 288, 304, 4, 600 as little-endian 16-bit values + 0x0e
ParamsPayload == B(<<TCU_CMD, TCU_SET, 32, 1, 48, 1, 4, 0, 88, 2, 14>>)

AuthReturn(v, h) == Return(v) /\ hs' = [h EXCEPT !.res = v]

\* a step of authenticate takes a response (when there is one): the frame
\* that response replied to, and the frame the step wrote, the last one
Taken(step, has, src) ==
    IF has THEN {[step |-> step, src |-> src, cmd |-> <<calls, Len(wire)>>]} ELSE {}

\* (variant: a key is logged by its length alone)
LogKey_Redacted(line, key) == [line |-> line, text |-> HexText(EmptyB)]
\* _LOGGER.<level>(fmt, key.hex(), ...) with a key as the argument
LogKey(line, key) == LogRecord(line, key)

\* authenticate, from its start to the wait for the TDI response
Auth_Begin ==
    /\ pc = "au_begin"
    /\ LET h0 == [NoHandshake EXCEPT !.start = Len(wire), !.wasAuth = authenticated,
                                     !.dataSrc = hs.dataSrc, !.queueSrc = hs.queueSrc] IN
       IF ~IsConnected
       THEN /\ AuthReturn("false", h0)
            /\ UNCHANGED <<respVars, inflight, dev, wire, lastData, signedCtrs, radio>>
       ELSE SendCommand("tdi", TdiCommand,
                /\ pc' = "au_tdi_wait" /\ UNCHANGED <<stack, ret>> /\ hs' = h0,
                AuthReturn("false", [h0 EXCEPT !.tdiLen = 0]),
                FALSE)
    /\ UNCHANGED <<op, result, pending, nOps, calls, keyLen, keyVars, client, device,
                   authenticated, sessVars, ctrVars, linkVars, keyOrigin,
                   songErrAfterRing>>
    /\ UNCHANGED <<scanVars, vfVars, twoVars, macVars, ringVars, coordVars>>

\* (variant: only the empty response is rejected)
TdiInvalid_EmptyOnly(tdi_response) == LenB(tdi_response) < 1
\* (variant: authenticate goes on whatever the TDI wait gave)
TdiInvalid_Never(tdi_response) == FALSE
\* `if not tdi_response or len(tdi_response) < 5`
TdiInvalid(tdi_response) == LenB(tdi_response) < 5

\* authenticate, from the TDI response to the wait for the nonce response
Auth_TdiResponse ==
    /\ pc = "au_tdi_wait"
    /\ LET tdi_response == AwaitedResponse
           h1 == [hs EXCEPT !.tdiLen = LenB(tdi_response),
                            !.timedOut = ~response_event,
                            !.took = @ \cup Taken("tdi", response_event, hs.dataSrc)] IN
       IF TdiInvalid(tdi_response)
       THEN /\ AuthReturn("false", h1)
            /\ UNCHANGED <<rand_a, respVars, inflight, dev, wire, lastData, signedCtrs, radio>>
       ELSE \E r \in NonceVals :
              /\ rand_a' = RepB(r, RandALen)
              /\ SendCommand("nonce", RandACommand(rand_a'),
                     /\ pc' = "au_nonce_wait" /\ UNCHANGED <<stack, ret>>
                     /\ hs' = [h1 EXCEPT !.log = @ \cup {LogRecord(505, rand_a')}],
                     AuthReturn("false", [h1 EXCEPT !.nonceLen = 0,
                                                    !.log = @ \cup {LogRecord(505, rand_a')}]),
                     AuthReturn("false", [h1 EXCEPT !.log = @ \cup {LogRecord(505, rand_a')}]))
    /\ UNCHANGED <<op, result, pending, nOps, calls, keyLen, keyVars, client, device,
                   authenticated, rand_t, channel_key, channel_byte, channel_data,
                   ctrVars, linkVars, keyOrigin, songErrAfterRing>>
    /\ UNCHANGED <<scanVars, vfVars, twoVars, macVars, ringVars, coordVars>>

\* auth_data: the response without its MEP header, when it has one
AuthData(auth_response) ==
    IF StartsWith(auth_response, MEP_CONNECTIONLESS)
    THEN Slice(auth_response, 5, LenB(auth_response))
    ELSE auth_response

\* `if len(auth_data) == 15` / `elif len(auth_data) >= 17`
IsToa(auth_data) == LenB(auth_data) = 15
IsLegacy(auth_data) == LenB(auth_data) >= 17

\* authenticate, from the nonce response (parse, signature check, step 4, queue
\* clearing) to the wait of _open_channel
Auth_NonceResponse ==
    /\ pc = "au_nonce_wait"
    /\ LET auth_response == AwaitedResponse
           auth_data == AuthData(auth_response)
           toa == IsToa(auth_data)
           legacy == IsLegacy(auth_data)
           rt == IF toa THEN Slice(auth_data, 1, 11) ELSE Slice(auth_data, 1, 9)
           sres_t == IF toa THEN Slice(auth_data, 11, 15) ELSE Slice(auth_data, 9, 17)
           expected_1 == ExpectedSres(auth_key, rand_a, rt)
           matches == sres_t = expected_1
           \* `if not self._authenticated:` guards the loop over expected_list
           tried == ~authenticated
           parsed == LenB(auth_response) >= 5 /\ (toa \/ legacy)
           honest == /\ parsed /\ sres_t.lit = <<>> /\ sres_t.dig # <<>>
                     /\ sres_t.dig[1].k = auth_key
                     /\ sres_t.dig[1].m = Cat(PadZero(rand_a, 16), PadZero(rt, 16))
                     /\ sres_t.dig[1].lo = 4
           h1 == [hs EXCEPT !.nonceLen = LenB(auth_data),
                            !.took = @ \cup Taken("nonce", response_event, hs.dataSrc),
                            !.timedOut = hs.timedOut \/ ~response_event,
                            !.shape = IF ~parsed THEN "none" ELSE IF toa THEN "toa" ELSE "legacy",
                            !.honest = honest,
                            !.mismatch = parsed /\ ~matches,
                            !.verified = parsed /\ matches,
                            \* on_auth_success(tile_id, i) in the loop
                            !.callbacks = IF parsed /\ tried /\ matches THEN 1 ELSE 0,
                            \* "Auth key: %s" before the comparison, "Auth key
                            \* bytes: %s" in the diagnosis of a mismatch
                            !.log = @ \cup (IF parsed THEN {LogKey(556, auth_key)} ELSE {})
                                      \cup (IF parsed /\ tried /\ ~matches
                                            THEN {LogKey(632, auth_key)} ELSE {})]
           \* the queue is emptied before _open_channel
           hc == [h1 EXCEPT !.queueSrc = <<>>]
       IN
       IF ~parsed \/ (tried /\ ~matches)
       THEN /\ AuthReturn("false", h1)
            /\ UNCHANGED <<authenticated, rand_t, response_queue,
                           inflight, dev, wire, lastData, signedCtrs, radio>>
       ELSE /\ authenticated' = TRUE
            /\ rand_t' = rt
            /\ response_queue' = <<>>
            /\ IF ~IsConnected
               THEN AuthReturn("false", hc) /\ UNCHANGED <<inflight, dev, wire, lastData, signedCtrs, radio>>
               ELSE TryWrite("open", ChannelOpenCommand(rand_a), 0, keyOrigin,
                        /\ pc' = "au_open_wait" /\ UNCHANGED <<stack, ret>> /\ hs' = hc,
                        AuthReturn("false", hc))
    /\ UNCHANGED <<op, result, pending, nOps, calls, keyLen, keyVars, client, device,
                   response_event, response_data, rand_a, channel_key, channel_byte,
                   channel_data, ctrVars, linkVars, keyOrigin, songErrAfterRing>>
    /\ UNCHANGED <<scanVars, vfVars, twoVars, macVars, ringVars, coordVars>>

\* authenticate, from the channel-open response (parse, key derivation) to the
\* wait of _establish_channel
Auth_OpenResponse ==
    /\ pc = "au_open_wait"
    /\ tx_counter < MaxTx
    /\ LET has == response_queue # <<>>
           response == Head(response_queue)
           expected_header == Cat(MEP_CONNECTION_ID, B(<<CHANNEL_OPEN_RSP>>))
           good == has /\ LenB(response) >= 7 /\ Slice(response, 0, 6) = expected_header
           cb == ByteAt(response, 6)
           cd == Slice(response, 7, LenB(response))
           key == DeriveChannelKey(auth_key, rand_a, cd, cb, MEP_CONNECTION_ID)
           ko == [link |-> client, verified |-> hs.verified]
           \* "Channel encryption key derived: %s"
           \* self._response_queue.get()
           hq == [hs EXCEPT !.queueSrc = IF has THEN Tail(@) ELSE @,
                            !.took = @ \cup Taken("open", has, Head(hs.queueSrc))]
           h2 == [hq EXCEPT !.log = @ \cup {LogKey(670, key)}]
       IN
       /\ response_queue' = IF has THEN Tail(response_queue) ELSE response_queue
       /\ IF ~good
          THEN /\ AuthReturn("false", [hq EXCEPT !.timedOut = hs.timedOut \/ ~has])
               /\ UNCHANGED <<channel_key, channel_byte, channel_data, tx_counter, keyOrigin,
                              inflight, dev, wire, lastData, signedCtrs, radio>>
          ELSE /\ channel_byte' = cb
               /\ channel_data' = cd
               /\ channel_key' = key
               /\ keyOrigin' = ko
               /\ tx_counter' = tx_counter + 1
               /\ IF ~IsConnected
                  THEN AuthReturn("false", h2) /\ UNCHANGED <<inflight, dev, wire, lastData, signedCtrs, radio>>
                  ELSE TryWrite("establish",
                                SignedFrame(cb, key, tx_counter + 1, B(<<CHANNEL_CMD, CHANNEL_PAYLOAD>>)),
                                tx_counter + 1, ko,
                                pc' = "au_est_wait" /\ UNCHANGED <<stack, ret>> /\ hs' = h2,
                                AuthReturn("false", h2))
    /\ UNCHANGED <<op, result, pending, nOps, calls, keyLen, keyVars, client, device,
                   response_event, response_data, authenticated, rand_a, rand_t,
                   rx_counter, linkVars, songErrAfterRing>>
    /\ UNCHANGED <<scanVars, vfVars, twoVars, macVars, ringVars, coordVars>>

\* (variant: _establish_channel reports success only for a verified response)
EstablishResult_Strict(outcome) == outcome = "verified"
\* _establish_channel after its wait: `return True` whatever the wait gave
EstablishResult(outcome) == TRUE

\* authenticate, from the end of _establish_channel's wait through
\* _update_connection_params to its sleep
Auth_EstablishResponse ==
    /\ pc = "au_est_wait"
    /\ tx_counter < MaxTx
    /\ LET has == response_queue # <<>>
           response == Head(response_queue)
           confirmed == /\ has /\ LenB(response) >= 2
                        /\ ByteAt(response, 0) = channel_byte /\ ByteAt(response, 1) = 1
           v == VerifyResponseHmac(response, channel_key, rx_counter)
           outcome == IF ~has THEN "timeout"
                      ELSE IF ~confirmed THEN "unexpected"
                      ELSE IF v[1] THEN "verified" ELSE "badhmac"
           h1 == [hs EXCEPT !.est = outcome,
                            !.queueSrc = IF has THEN Tail(@) ELSE @,
                            !.took = @ \cup Taken("establish", has, Head(hs.queueSrc))]
       IN
       /\ response_queue' = IF has THEN Tail(response_queue) ELSE response_queue
       /\ rx_counter' = IF confirmed THEN v[2] ELSE rx_counter
       /\ IF ~EstablishResult(outcome)
          THEN /\ AuthReturn("false", h1)
               /\ UNCHANGED <<tx_counter, inflight, dev, wire, lastData, signedCtrs, radio>>
          ELSE /\ tx_counter' = tx_counter + 1
               /\ TryWrite("params",
                           SignedFrame(channel_byte, channel_key, tx_counter + 1, ParamsPayload),
                           tx_counter + 1, keyOrigin,
                           pc' = "au_sleep" /\ UNCHANGED <<stack, ret>> /\ hs' = h1,
                           AuthReturn("true", h1))
    /\ UNCHANGED <<op, result, pending, nOps, calls, keyLen, keyVars, client, device,
                   response_event, response_data, authenticated, sessVars,
                   linkVars, keyOrigin, songErrAfterRing>>
    /\ UNCHANGED <<scanVars, vfVars, twoVars, macVars, ringVars, coordVars>>

\* authenticate, after the sleep of _update_connection_params
Auth_Ready ==
    /\ pc = "au_sleep"
    /\ AuthReturn("true", hs)
    /\ UNCHANGED <<op, result, pending, nOps, calls, keyLen, keyVars, client, device,
                   respVars, authenticated, sessVars, ctrVars, linkVars, inflight, dev,
                   wire, lastData, signedCtrs, keyOrigin, radio, songErrAfterRing>>
    /\ UNCHANGED <<scanVars, vfVars, twoVars, macVars, ringVars, coordVars>>

(***************************************************************************)
(* TileBleClient.ring and stop_ring.                                       *)
(***************************************************************************)
\* (variant: _read_song_features signs with the counter as it is, no increment)
ReadSongFeatures_NoIncrement ==
    /\ tx_counter < MaxTx
    /\ tx_counter' = tx_counter
    /\ TryWrite("song",
                SignedFrame(channel_byte, channel_key, tx_counter,
                            B(<<SONG_CMD, SONG_READ_FEATURES>>)),
                tx_counter, keyOrigin,
                pc' = "rg_settle" /\ UNCHANGED <<stack, ret>>,
                pc' = "rg_settle" /\ UNCHANGED <<stack, ret>>)
\* ring: _read_song_features and the start of the 2.5 s settle delay
ReadSongFeatures ==
    /\ tx_counter < MaxTx
    /\ tx_counter' = tx_counter + 1
    /\ TryWrite("song",
                SignedFrame(channel_byte, channel_key, tx_counter + 1,
                            B(<<SONG_CMD, SONG_READ_FEATURES>>)),
                tx_counter + 1, keyOrigin,
                pc' = "rg_settle" /\ UNCHANGED <<stack, ret>>,
                pc' = "rg_settle" /\ UNCHANGED <<stack, ret>>)

\* ring, from its start to its first await
Ring_Begin ==
    /\ pc = "rg_begin"
    /\ IF ~IsConnected
       THEN Return("false") /\ UNCHANGED <<tx_counter, inflight, dev, wire, lastData, signedCtrs, radio>>
       ELSE IF ~authenticated
            THEN /\ Call("au_begin", "rg_after_auth")
                 /\ UNCHANGED <<tx_counter, inflight, dev, wire, lastData, signedCtrs, radio>>
            ELSE ReadSongFeatures
    /\ UNCHANGED <<op, result, pending, nOps, calls, keyLen, keyVars, client, device,
                   respVars, authenticated, sessVars, rx_counter, linkVars, hs,
                   keyOrigin, songErrAfterRing>>
    /\ UNCHANGED <<scanVars, vfVars, twoVars, macVars, ringVars, coordVars>>

\* (variant: ring goes on whatever authenticate returned)
AuthFailed_Ignored(r) == FALSE
\* `if not await self.authenticate()`
AuthFailed(r) == r # "true"

\* ring, after authenticate returned
Ring_AfterAuth ==
    /\ pc = "rg_after_auth"
    /\ IF AuthFailed(ret)
       THEN Return("false") /\ UNCHANGED <<tx_counter, inflight, dev, wire, lastData, signedCtrs, radio>>
       ELSE ReadSongFeatures
    /\ UNCHANGED <<op, result, pending, nOps, calls, keyLen, keyVars, client, device,
                   respVars, authenticated, sessVars, rx_counter, linkVars, hs,
                   keyOrigin, songErrAfterRing>>
    /\ UNCHANGED <<scanVars, vfVars, twoVars, macVars, ringVars, coordVars>>

\* ring, after the settle delay: _build_ring_command and the write
Ring_Send ==
    /\ pc = "rg_settle"
    /\ tx_counter < MaxTx
    /\ tx_counter' = tx_counter + 1
    /\ IF ~IsConnected
       THEN Return("false") /\ UNCHANGED <<inflight, dev, wire, lastData, signedCtrs, radio>>
       ELSE TryWrite("ring",
                     SignedFrame(channel_byte, channel_key, tx_counter + 1,
                                 RingPayload(RingVolume, RingDuration)),
                     tx_counter + 1, keyOrigin,
                     Return("true"),
                     Return("false"))
    /\ UNCHANGED <<op, result, pending, nOps, calls, keyLen, keyVars, client, device,
                   respVars, authenticated, sessVars, rx_counter, linkVars, hs,
                   keyOrigin, songErrAfterRing>>
    /\ UNCHANGED <<scanVars, vfVars, twoVars, macVars, ringVars, coordVars>>

\* stop_ring, from its start to the wait of _send_command
Stop_Begin ==
    /\ pc = "st_begin"
    /\ IF ~IsConnected
       THEN Return("false") /\ UNCHANGED <<respVars, inflight, dev, wire, lastData, signedCtrs, radio>>
       ELSE SendCommand("stop", BuildStopCommand,
                pc' = "st_wait" /\ UNCHANGED <<stack, ret>>,
                Return("true"),
                FALSE)
    /\ UNCHANGED <<op, result, pending, nOps, calls, keyLen, keyVars, client, device,
                   authenticated, sessVars, ctrVars, linkVars, hs, keyOrigin,
                   songErrAfterRing>>
    /\ UNCHANGED <<scanVars, vfVars, twoVars, macVars, ringVars, coordVars>>

\* stop_ring, after _send_command returned (a response or b"")
Stop_Wait ==
    /\ pc = "st_wait"
    /\ Return("true")
    /\ UNCHANGED <<op, result, pending, nOps, calls, keyLen, keyVars, client, device,
                   respVars, authenticated, sessVars, ctrVars, linkVars, inflight, dev,
                   histVars>>
    /\ UNCHANGED <<scanVars, vfVars, twoVars, macVars, ringVars, coordVars>>

(***************************************************************************)
(* ring_tile_ble.                                                          *)
(***************************************************************************)
clientVars == <<keyVars, client, device, respVars, authenticated, sessVars, ctrVars,
                linkVars, inflight, dev, wire, lastData, signedCtrs, hs, keyOrigin,
                songErrAfterRing>>

\* ring_tile_ble, up to the scan: key conversion, length check, the client
RingTileBle_Start ==
    /\ pc = "idle"
    /\ nOps < MaxOps
    /\ \E k \in KeyInputs, known \in KnownMethods :
         /\ op' = "ring" /\ nOps' = nOps + 1 /\ keyLen' = k.n
         /\ calls' = 0 /\ pending' = "none" /\ radio' = FALSE
         /\ IF k.form = "badhex" \/ k.n # KeyLen
            THEN /\ result' = "false"
                 /\ UNCHANGED <<pc, stack, ret>>
                 /\ UNCHANGED clientVars
            ELSE /\ Construct(KeyBytes(k), known)
                 /\ result' = "pending"
                 /\ pc' = "rt_scan" /\ stack' = <<>> /\ ret' = "none"
    /\ UNCHANGED <<scanVars, vfVars, twoVars, macVars, ringVars, coordVars>>

\* the end of scan_for_tile as ring_tile_ble sees it: a device or None
RingTileBle_Scan ==
    /\ pc = "rt_scan"
    /\ radio' = TRUE
    /\ \/ /\ device' = TRUE
          /\ Call("co_establish", "rt_connected")
          /\ UNCHANGED pending
       \/ /\ pending' = "false"
          /\ Call("dc", "rt_done")
          /\ UNCHANGED device
    /\ UNCHANGED <<op, result, nOps, calls, keyLen, keyVars, client, respVars,
                   authenticated, sessVars, ctrVars, linkVars, inflight, dev,
                   wire, lastData, signedCtrs, hs, keyOrigin, songErrAfterRing>>
    /\ UNCHANGED <<scanVars, vfVars, twoVars, macVars, ringVars, coordVars>>

\* ring_tile_ble after connect: ring, or False (connect failed or raised)
RingTileBle_Connected ==
    /\ pc = "rt_connected"
    /\ IF ret = "true"
       THEN Call("rg_begin", "rt_rung") /\ UNCHANGED pending
       ELSE pending' = "false" /\ Call("dc", "rt_done")
    /\ UNCHANGED <<op, result, nOps, calls, keyLen, clientVars, radio>>
    /\ UNCHANGED <<scanVars, vfVars, twoVars, macVars, ringVars, coordVars>>

\* ring_tile_ble after ring: the result, then the finally clause
RingTileBle_Rung ==
    /\ pc = "rt_rung"
    /\ pending' = ret
    /\ Call("dc", "rt_done")
    /\ UNCHANGED <<op, result, nOps, calls, keyLen, clientVars, radio>>
    /\ UNCHANGED <<scanVars, vfVars, twoVars, macVars, ringVars, coordVars>>

\* ring_tile_ble returns
RingTileBle_Done ==
    /\ pc = "rt_done"
    /\ result' = pending
    /\ pc' = "idle"
    /\ UNCHANGED <<op, stack, ret, pending, nOps, calls, keyLen, clientVars, radio>>
    /\ UNCHANGED <<scanVars, vfVars, twoVars, macVars, ringVars, coordVars>>

(***************************************************************************)
(* stop_ring_tile_ble.                                                     *)
(***************************************************************************)
StopRingTileBle_Start ==
    /\ pc = "idle"
    /\ nOps < MaxOps
    /\ \E k \in KeyInputs :
         /\ op' = "stop" /\ nOps' = nOps + 1 /\ keyLen' = k.n
         /\ calls' = 0 /\ pending' = "none" /\ radio' = FALSE
         /\ IF k.form = "badhex"
            THEN \* bytes.fromhex raises ValueError
                 /\ result' = "raise"
                 /\ UNCHANGED <<pc, stack, ret>>
                 /\ UNCHANGED clientVars
            ELSE /\ Construct(KeyBytes(k), 0)
                 /\ result' = "pending"
                 /\ pc' = "so_scan" /\ stack' = <<>> /\ ret' = "none"
    /\ UNCHANGED <<scanVars, vfVars, twoVars, macVars, ringVars, coordVars>>

StopRingTileBle_Scan ==
    /\ pc = "so_scan"
    /\ radio' = TRUE
    /\ \/ /\ device' = TRUE
          /\ Call("co_establish", "so_connected")
          /\ UNCHANGED pending
       \/ /\ pending' = "false"
          /\ Call("dc", "so_done")
          /\ UNCHANGED device
    /\ UNCHANGED <<op, result, nOps, calls, keyLen, keyVars, client, respVars,
                   authenticated, sessVars, ctrVars, linkVars, inflight, dev,
                   wire, lastData, signedCtrs, hs, keyOrigin, songErrAfterRing>>
    /\ UNCHANGED <<scanVars, vfVars, twoVars, macVars, ringVars, coordVars>>

\* stop_ring_tile_ble after connect: authenticate, or False, or the exception
StopRingTileBle_Connected ==
    /\ pc = "so_connected"
    /\ IF ret = "true"
       THEN Call("au_begin", "so_authed") /\ UNCHANGED pending
       ELSE pending' = ret /\ Call("dc", "so_done")
    /\ UNCHANGED <<op, result, nOps, calls, keyLen, clientVars, radio>>
    /\ UNCHANGED <<scanVars, vfVars, twoVars, macVars, ringVars, coordVars>>

\* stop_ring_tile_ble after authenticate: stop_ring, or False
StopRingTileBle_Authed ==
    /\ pc = "so_authed"
    /\ IF ret = "true"
       THEN Call("st_begin", "so_stopped") /\ UNCHANGED pending
       ELSE pending' = "false" /\ Call("dc", "so_done")
    /\ UNCHANGED <<op, result, nOps, calls, keyLen, clientVars, radio>>
    /\ UNCHANGED <<scanVars, vfVars, twoVars, macVars, ringVars, coordVars>>

StopRingTileBle_Stopped ==
    /\ pc = "so_stopped"
    /\ pending' = ret
    /\ Call("dc", "so_done")
    /\ UNCHANGED <<op, result, nOps, calls, keyLen, clientVars, radio>>
    /\ UNCHANGED <<scanVars, vfVars, twoVars, macVars, ringVars, coordVars>>

StopRingTileBle_Done ==
    /\ pc = "so_done"
    /\ result' = pending
    /\ pc' = "idle"
    /\ UNCHANGED <<op, stack, ret, pending, nOps, calls, keyLen, clientVars, radio>>
    /\ UNCHANGED <<scanVars, vfVars, twoVars, macVars, ringVars, coordVars>>

(***************************************************************************)
(* A caller that drives one TileBleClient directly, method by method (as   *)
(* diagnose_ring_tile_by_mac does).                                        *)
(***************************************************************************)
Methods == {"co_establish", "au_begin", "rg_begin", "st_begin", "dc"}

Api_Start ==
    /\ pc = "idle"
    /\ nOps < MaxOps
    /\ Construct(KeyBytes([form |-> "bytes", n |-> KeyLen]), 0)
    /\ op' = "api" /\ nOps' = nOps + 1 /\ keyLen' = KeyLen
    /\ calls' = 0 /\ pending' = "none" /\ radio' = FALSE /\ result' = "pending"
    /\ pc' = "api_idle" /\ stack' = <<>> /\ ret' = "none"
    /\ UNCHANGED <<scanVars, vfVars, twoVars, macVars, ringVars, coordVars>>

Api_Call ==
    /\ pc = "api_idle"
    /\ calls < MaxCalls
    /\ calls' = calls + 1
    /\ \E m \in Methods : Call(m, "api_idle")
    \* the history of one call starts here
    /\ wire' = <<>> /\ songErrAfterRing' = FALSE
    /\ hs' = [NoHandshake EXCEPT !.dataSrc = hs.dataSrc, !.queueSrc = hs.queueSrc]
    /\ UNCHANGED <<op, result, pending, nOps, keyLen, keyVars, client, device, respVars,
                   authenticated, sessVars, ctrVars, linkVars, inflight, dev, lastData,
                   signedCtrs, keyOrigin, radio>>
    /\ UNCHANGED <<scanVars, vfVars, twoVars, macVars, ringVars, coordVars>>

Next ==
    \/ RingTileBle_Start \/ RingTileBle_Scan \/ RingTileBle_Connected
    \/ RingTileBle_Rung \/ RingTileBle_Done
    \/ StopRingTileBle_Start \/ StopRingTileBle_Scan \/ StopRingTileBle_Connected
    \/ StopRingTileBle_Authed \/ StopRingTileBle_Stopped \/ StopRingTileBle_Done
    \/ Api_Start \/ Api_Call
    \/ Connect_Establish \/ Connect_Notify \/ Disconnect
    \/ Auth_Begin \/ Auth_TdiResponse \/ Auth_NonceResponse \/ Auth_OpenResponse
    \/ Auth_EstablishResponse \/ Auth_Ready
    \/ Ring_Begin \/ Ring_AfterAuth \/ Ring_Send
    \/ Stop_Begin \/ Stop_Wait
    \/ HandleResponse \/ HandleDisconnect

Spec == Init /\ [][Next]_vars

(***************************************************************************)
(* TileBleClient.scan_for_tile step by step, under ring_tile_ble.  The      *)
(* scanner's start() and stop() are taken to succeed.  A device is known by *)
(* its address; time is counted in check intervals of the polling loop.     *)
(***************************************************************************)
\* the distinct advertisements one scan may see
MaxAds == 3
\* scan_timeout, in check intervals
ScanTimeout == 2

\* _tile_id_to_mac(tile_id): the first six bytes of the id with the two top
\* bits of the first byte set
ExpectedMac == "derived"
\* the address spelled exactly as tile_id[:12] (differs from ExpectedMac when
\* the id does not start with its two top bits set)
IdPrefixAddr == "idprefix"
Addresses == {ExpectedMac, IdPrefixAddr, "a1", "a2"}
\* an advertisement: the address, whether TILE_SERVICE_UUID is among its
\* service uuids, whether the device name contains tile_id[:8]
Ads == [addr : Addresses, uuid : BOOLEAN, name : BOOLEAN]

\* detection_callback's tests, in its order
IsExact(ad) == ad.uuid /\ ad.addr = ExpectedMac
IsTileService(ad) == ad.uuid
IsDerivedMac(ad) == ad.addr = ExpectedMac
IsPartialId(ad) == ad.addr = IdPrefixAddr
IsNameMatch(ad) == ad.name
\* the advertisement passes one of the tests
Matches(ad) ==
    IsTileService(ad) \/ IsDerivedMac(ad) \/ IsPartialId(ad) \/ IsNameMatch(ad)

\* `if found_device is None: found_device = device`
IfNone(found, ad) == IF found = NoAddress THEN ad.addr ELSE found
\* (variant: every match, the exact one too, is kept only when none was before)
DetectionResult_FirstWins(found, ad) ==
    IF Matches(ad) THEN IfNone(found, ad) ELSE found
\* found_device after detection_callback(device, advertisement_data)
DetectionResult(found, ad) ==
    IF IsTileService(ad)
    THEN IF IsDerivedMac(ad) THEN ad.addr ELSE IfNone(found, ad)
    ELSE IF IsDerivedMac(ad) THEN ad.addr
    ELSE IF IsPartialId(ad) THEN IfNone(found, ad)
    ELSE IF IsNameMatch(ad) THEN IfNone(found, ad)
    ELSE found

\* ring_tile_ble calls scan_for_tile, which runs up to `await scanner.start()`
ScanForTile_Begin ==
    /\ pc = "rt_scan"
    /\ radio' = TRUE
    /\ found_device' = NoAddress /\ seen' = {} /\ elapsed' = 0
    /\ heard' = <<>>
    /\ scanning' = TRUE
    /\ Call("sc_start", "rt_scanned")
    /\ UNCHANGED <<op, result, pending, nOps, calls, keyLen, keyVars, client, device,
                   respVars, authenticated, sessVars, ctrVars, linkVars, inflight,
                   dev, wire, lastData, signedCtrs, hs, keyOrigin, songErrAfterRing>>
    /\ UNCHANGED <<vfVars, twoVars, macVars, ringVars, coordVars>>

\* the scanner delivers an advertisement while scan_for_tile is suspended
DetectionCallback ==
    /\ pc \in {"sc_start", "sc_sleep", "sc_stop"}
    /\ scanning
    /\ \E ad \in Ads :
         /\ ad \in seen \/ Cardinality(seen) < MaxAds
         /\ seen' = seen \cup {ad}
         /\ heard' = <<ad>>
         /\ found_device' = DetectionResult(found_device, ad)
    /\ UNCHANGED <<drvVars, keyVars, client, device, respVars, authenticated,
                   sessVars, ctrVars, linkVars, inflight, dev, histVars,
                   elapsed, scanning>>
    /\ UNCHANGED <<vfVars, twoVars, macVars, ringVars, coordVars>>

\* scanner.start() returned: start_time is taken
ScanForTile_Started ==
    /\ pc = "sc_start"
    /\ pc' = "sc_check"
    /\ elapsed' = 0
    /\ UNCHANGED <<op, stack, ret, result, pending, nOps, calls, keyLen, clientVars,
                   radio, found_device, scanning, seen, heard>>
    /\ UNCHANGED <<vfVars, twoVars, macVars, ringVars, coordVars>>

\* (variant: the loop leaves only on the timeout)
ScanLoopBreaks_TimeoutOnly(found, t) == t >= ScanTimeout
\* the polling loop's two breaks: a device was found, or the timeout is over
ScanLoopBreaks(found, t) == found # NoAddress \/ t >= ScanTimeout

\* one pass of `while True`, up to the break or the sleep
ScanForTile_Check ==
    /\ pc = "sc_check"
    /\ pc' = IF ScanLoopBreaks(found_device, elapsed) THEN "sc_stop" ELSE "sc_sleep"
    /\ UNCHANGED <<op, stack, ret, result, pending, nOps, calls, keyLen, clientVars,
                   radio, scanVars>>
    /\ UNCHANGED <<vfVars, twoVars, macVars, ringVars, coordVars>>

\* (variant: the time is read once, before the loop)
ElapsedAfterSleep_Stale(t) == {t}
\* elapsed when asyncio.sleep(check_interval) is over: at least one interval
\* later, the clock being monotonic
ElapsedAfterSleep(t) == (t + 1)..Max(t + 1, ScanTimeout)

\* asyncio.sleep(check_interval) is over and the time is read again
ScanForTile_Wake ==
    /\ pc = "sc_sleep"
    /\ \E t \in ElapsedAfterSleep(elapsed) : elapsed' = t
    /\ pc' = "sc_check"
    /\ UNCHANGED <<op, stack, ret, result, pending, nOps, calls, keyLen, clientVars,
                   radio, found_device, scanning, seen, heard>>
    /\ UNCHANGED <<vfVars, twoVars, macVars, ringVars, coordVars>>

\* scanner.stop() returned: scan_for_tile returns found_device or None
ScanForTile_Stopped ==
    /\ pc = "sc_stop"
    /\ scanning' = FALSE
    /\ device' = (device \/ found_device # NoAddress)
    /\ Return(found_device)
    /\ UNCHANGED <<op, result, pending, nOps, calls, keyLen, keyVars, client,
                   respVars, authenticated, sessVars, ctrVars, linkVars, inflight,
                   dev, histVars, found_device, elapsed, seen,
                   heard>>
    /\ UNCHANGED <<vfVars, twoVars, macVars, ringVars, coordVars>>

\* (variant: ring_tile_ble goes on to connect whatever the scan returned)
ScanFound_Always(r) == TRUE
\* ring_tile_ble: `if not device` after the scan
ScanFound(r) == r # NoAddress

\* ring_tile_ble after scan_for_tile: connect(device), or False
RingTileBle_Scanned ==
    /\ pc = "rt_scanned"
    /\ IF ScanFound(ret)
       THEN Call("co_establish", "rt_connected") /\ UNCHANGED pending
       ELSE pending' = "false" /\ Call("dc", "rt_done")
    /\ UNCHANGED <<op, result, nOps, calls, keyLen, clientVars, radio, scanVars>>
    /\ UNCHANGED <<vfVars, twoVars, macVars, ringVars, coordVars>>

NextScan ==
    \/ RingTileBle_Start \/ ScanForTile_Begin \/ DetectionCallback
    \/ ScanForTile_Started \/ ScanForTile_Check \/ ScanForTile_Wake
    \/ ScanForTile_Stopped \/ RingTileBle_Scanned
    \/ Disconnect \/ RingTileBle_Done

\* ring_tile_ble with the scan in detail, up to the call of connect
SpecScan == Init /\ [][NextScan]_vars

\* the event loop resumes scan_for_tile whenever it can run: start() and
\* stop() of the scanner return, a pass of the loop is made, the sleep ends.
\* Nothing is asked of the advertisements.
ScanFairness ==
    /\ WF_vars(ScanForTile_Started)
    /\ WF_vars(ScanForTile_Check)
    /\ WF_vars(ScanForTile_Wake)
    /\ WF_vars(ScanForTile_Stopped)
\* SpecScan with the polling loop making progress
SpecScanFair == SpecScan /\ ScanFairness

(***************************************************************************)
(* TileBleClient._verify_response_hmac applied to responses of every shape, *)
(* in a session that has a channel key and a receive counter.  HMAC-SHA256  *)
(* is symbolic: two digests are equal exactly when key and message are.     *)
(***************************************************************************)
\* the highest receive counter a session starts with
MaxRx == 3

\* the channel keys: the session's own is one of them
VfKeys == {DeviceKey, OtherKey}
\* [command, payload...] carried by a response; the empty one too
\* data of 27 bytes: with the six bytes before it the message passes 32
LongData == RepB(7, 27)
VfData == {EmptyB, B(<<1>>), B(<<1, 0>>), LongData}
\* the counters a response may be signed for
VfCounters == 1..(MaxRx + 1)

\* what the Tile sends for its n-th signed response:
\* channel_byte || data || HMAC(key, message(n, direction 0, data))[:4]
SignedResponse(cb, key, n, data) ==
    Cat(Cat(B(<<cb>>), data), Slice(Hmac(key, BuildHmacMessage(n, data, TRUE)), 0, 4))

\* the responses presented: signed as responses, signed as commands
\* (direction 1), too short, and six bytes without a digest
VfResponses ==
    {SignedResponse(DevChannelByte, k, n, d) : k \in VfKeys, n \in VfCounters, d \in VfData}
    \cup {SignedFrame(DevChannelByte, k, n, B(<<1>>)) : k \in VfKeys, n \in VfCounters}
    \cup {B(<<DevChannelByte, 1, 1>>), B(<<DevChannelByte, 1, 0, 0, 0, 0>>)}

InitVerify ==
    /\ InitOther
    /\ channel_key \in VfKeys
    /\ rx_counter \in 0..MaxRx
    /\ mac_id = ExampleId
    /\ RingDefaults /\ CoordDefaults

\* one call of _verify_response_hmac(response)
VerifyResponseHmac_Apply ==
    /\ \E response \in VfResponses :
         LET v == VerifyResponseHmac(response, channel_key, rx_counter)
         IN  /\ vf_response' = response
             /\ vf_verified' = v[1]
             /\ vf_rx_before' = rx_counter
             /\ rx_counter' = v[2]
             /\ vf_replay' = (response \in vf_accepted)
             /\ vf_accepted' = IF v[1] THEN vf_accepted \cup {response} ELSE vf_accepted
    /\ UNCHANGED <<drvVars, keyVars, client, device, respVars, authenticated,
                   rand_a, rand_t, channel_key, channel_byte, channel_data,
                   tx_counter, linkVars, inflight, dev, histVars, scanVars, twoVars,
                   macVars, ringVars, coordVars>>

NextVerify == VerifyResponseHmac_Apply

\* a session's calls of _verify_response_hmac
SpecVerify == InitVerify /\ [][NextVerify]_vars

(***************************************************************************)
(* Several invocations of ring_tile_ble, interleaved at their awaits.  Each *)
(* makes its TileBleClient; the steps are those that read or write the      *)
(* session fields: the nonce, the channel key, a signed write, a verified   *)
(* response.                                                                *)
(***************************************************************************)
\* the signed frames one invocation writes
MaxSigned == 2

\* (variant: one client object serves every invocation)
ClientFor_Shared(n) == 1
\* `client = TileBleClient(...)` in ring_tile_ble: the n-th object made
ClientFor(n) == n

\* the step is invocation i's, and only clients[c] changes, to `s`
StepOf(i, c, s, pcNext) ==
    /\ objs' = [objs EXCEPT ![c] = s]
    /\ inv' = [inv EXCEPT ![i] = [pc |-> pcNext, client |-> c]]
    /\ actor' = i
    /\ UNCHANGED <<drvVars, keyVars, client, device, respVars, authenticated,
                   sessVars, ctrVars, linkVars, inflight, dev, histVars,
                   scanVars, vfVars, macVars, ringVars, coordVars>>

\* ring_tile_ble, up to the scan: the client is made
Ring2_Start(i) ==
    /\ inv[i].pc = "idle"
    /\ nextObj <= MaxClients
    /\ nextObj' = nextObj + 1
    /\ \E key \in VfKeys :
         StepOf(i, ClientFor(nextObj), NewSession(key), "new")

\* authenticate: rand_a is drawn, the channel key derived
Ring2_Handshake(i) ==
    /\ inv[i].pc = "new"
    /\ UNCHANGED nextObj
    /\ LET c == inv[i].client IN
       \E r \in NonceVals :
         StepOf(i, c,
                [objs[c] EXCEPT
                    !.rand_a = RepB(r, RandALen),
                    !.channel_key = DeriveChannelKey(objs[c].auth_key, RepB(r, RandALen),
                                                     DevChannelData, DevChannelByte,
                                                     MEP_CONNECTION_ID)],
                "authed")

\* a signed write: tx_counter is incremented and used
Ring2_Sign(i) ==
    /\ inv[i].pc = "authed"
    /\ UNCHANGED nextObj
    /\ LET c == inv[i].client IN
         /\ objs[c].tx_counter < MaxSigned
         /\ StepOf(i, c, [objs[c] EXCEPT !.tx_counter = @ + 1], "authed")

\* a response is verified: _verify_response_hmac on the client's own fields
Ring2_Verify(i) ==
    /\ inv[i].pc = "authed"
    /\ UNCHANGED nextObj
    /\ LET c == inv[i].client IN
       \E n \in 1..MaxSigned, k \in VfKeys :
         LET response == SignedResponse(DevChannelByte,
                             DeriveChannelKey(k, objs[c].rand_a, DevChannelData,
                                              DevChannelByte, MEP_CONNECTION_ID),
                             n, B(<<1>>))
             v == VerifyResponseHmac(response, objs[c].channel_key, objs[c].rx_counter)
         IN  StepOf(i, c, [objs[c] EXCEPT !.rx_counter = v[2]], "authed")

\* ring_tile_ble returns; nothing refers to its client object any more
Ring2_Done(i) ==
    /\ inv[i].pc \in {"new", "authed"}
    /\ UNCHANGED nextObj
    /\ StepOf(i, inv[i].client, NoSession, "idle")

NextTwo ==
    \E i \in Invocations :
        \/ Ring2_Start(i) \/ Ring2_Handshake(i) \/ Ring2_Sign(i)
        \/ Ring2_Verify(i) \/ Ring2_Done(i)

\* ring_tile_ble invocations, one after another and at the same time
SpecTwo == Init /\ [][NextTwo]_vars

(***************************************************************************)
(* TileBleClient._tile_id_to_mac and the tests of detection_callback on     *)
(* texts (sequences of characters), for tile ids of every first byte and of *)
(* several lengths and spellings.                                           *)
(***************************************************************************)
HexLowerSet == {HexLower[i] : i \in 1..16}
\* the letters of the inputs that str.lower() changes
UpperLetters == <<"A", "B", "C", "D", "E", "F", "T", "I", "L">>
LowerLetters == <<"a", "b", "c", "d", "e", "f", "t", "i", "l">>

\* str.lower()
LowerChar(c) ==
    IF \E i \in 1..Len(UpperLetters) : UpperLetters[i] = c
    THEN LowerLetters[CHOOSE i \in 1..Len(UpperLetters) : UpperLetters[i] = c]
    ELSE c
ToLower(t) == [i \in 1..Len(t) |-> LowerChar(t[i])]
\* .lower().replace(":", "").replace("-", "")
NormalizeText(t) == SelectSeq(ToLower(t), LAMBDA c : c \notin {":", "-"})
\* t[:n]
TextPrefix(t, n) == SubSeq(t, 1, Min(n, Len(t)))
\* `needle in hay`
TextContains(hay, needle) ==
    \E i \in 0..Max(Len(hay) - Len(needle), 0) :
        /\ i + Len(needle) <= Len(hay)
        /\ SubSeq(hay, i + 1, i + Len(needle)) = needle

\* the value of a lowercase hex digit; bytes.fromhex on two of them
HexVal(c) == (CHOOSE i \in 1..16 : HexLower[i] = c) - 1
ByteFromHex(t, k) == 16 * HexVal(t[2 * k - 1]) + HexVal(t[2 * k])
\* f"{b:02X}"
FormatByte(b) == <<HexUpper[(b \div 16) + 1], HexUpper[(b % 16) + 1]>>
\* ":".join(f"{b:02X}" for b in mac_bytes), six bytes
FormatMac(bs) ==
    FormatByte(bs[1]) \o <<":">> \o FormatByte(bs[2]) \o <<":">> \o FormatByte(bs[3])
    \o <<":">> \o FormatByte(bs[4]) \o <<":">> \o FormatByte(bs[5]) \o <<":">>
    \o FormatByte(bs[6])

\* (variant: only the top bit of the first byte is set)
StaticAddressByte_TopBit(b) == (b % 128) + 128
\* (byte & 0x3F) | 0xC0
StaticAddressByte(b) == (b % 64) + 192

\* (variant: a short tile id is an error)
ShortIdResult_Error == [kind |-> "raise", mac |-> <<>>]
\* _tile_id_to_mac for a tile id under 12 characters: a warning and ""
ShortIdResult == [kind |-> "ok", mac |-> <<>>]

\* TileBleClient._tile_id_to_mac: the text returned, or ValueError from
\* bytes.fromhex
TileIdToMac(tile_id) ==
    LET tile_id_clean == NormalizeText(tile_id) IN
    IF Len(tile_id_clean) < 12 THEN ShortIdResult
    ELSE IF \E i \in 1..12 : tile_id_clean[i] \notin HexLowerSet
    THEN [kind |-> "raise", mac |-> <<>>]
    ELSE LET tile_bytes == [k \in 1..6 |-> ByteFromHex(tile_id_clean, k)]
             mac_bytes == [tile_bytes EXCEPT ![1] = StaticAddressByte(tile_bytes[1])]
         IN  [kind |-> "ok", mac |-> FormatMac(mac_bytes)]

\* detection_callback with found_device = None: does it set found_device
DetectionSelects(tile_id, expected_mac, ad) ==
    LET tile_id_lower == NormalizeText(tile_id)
        expected_mac_lower == NormalizeText(expected_mac)
        addr_normalized == NormalizeText(ad.address)
    IN  \/ ad.uuid
        \/ addr_normalized = expected_mac_lower
        \/ Len(tile_id_lower) >= 12 /\ TextContains(addr_normalized, TextPrefix(tile_id_lower, 12))
        \/ ad.name # <<>> /\ TextContains(ToLower(ad.name), TextPrefix(tile_id_lower, 8))

\* the tile ids: every first byte before the rest of the example id, and other
\* spellings and lengths
MacTail == <<"a", "7", "5", "7", "b", "8", "4", "7", "9", "c", "b", "d", "f", "c">>
MacIds ==
    {<<HexLower[i], HexLower[j]>> \o MacTail : i \in 1..16, j \in 1..16}
    \cup {<<"0", "3", "A", "7", "5", "7", "B", "8", "4", "7", "9", "C", "B", "D", "F", "C">>,
          <<"0", "3", ":", "a", "7", ":", "5", "7", ":", "b", "8", ":", "4", "7", ":", "9", "c">>,
          <<"0", "3", "a", "7", "5", "7", "b", "8", "4", "7", "9", "c">>,
          <<"0", "3", "a", "7", "5", "7", "b", "8", "4", "7", "9">>,
          <<"0", "3", "a", "7", "5", "7", "b", "8">>,
          <<"0", "3">>,
          <<>>,
          <<"0", "3", "g", "7", "5", "7", "b", "8", "4", "7", "9", "c", "b", "d", "f", "c">>}
\* the advertisements: the derived address of the example id, the address
\* spelled as its first twelve characters, another; no name and three names
MacAddresses ==
    {<<"C", "3", ":", "A", "7", ":", "5", "7", ":", "B", "8", ":", "4", "7", ":", "9", "C">>,
     <<"0", "3", ":", "A", "7", ":", "5", "7", ":", "B", "8", ":", "4", "7", ":", "9", "C">>,
     <<"1", "1", ":", "2", "2", ":", "3", "3", ":", "4", "4", ":", "5", "5", ":", "6", "6">>}
MacNames ==
    {<<>>, <<"T", "i", "l", "e">>, <<"T", "I", "L", "E", "-", "0", "3", "A", "7", "5", "7", "B", "8">>, <<"0", "3">>}
MacAds == [address : MacAddresses, uuid : BOOLEAN, name : MacNames]

InitMac ==
    /\ InitOther /\ channel_key = EmptyB /\ rx_counter = 0
    /\ mac_id \in MacIds
    /\ RingDefaults /\ CoordDefaults

\* expected_mac = self._tile_id_to_mac(self.tile_id)
Mac_Derive ==
    /\ mac_out = NoMac
    /\ mac_out' = TileIdToMac(mac_id)
    /\ UNCHANGED <<drvVars, keyVars, client, device, respVars, authenticated,
                   sessVars, ctrVars, linkVars, inflight, dev, histVars,
                   scanVars, vfVars, twoVars, mac_id, mac_ad, mac_sel, ringVars, coordVars>>

\* the scan goes on and detection_callback gets its first advertisement
Mac_Detect ==
    /\ mac_out.kind = "ok"
    /\ \E ad \in MacAds :
         /\ mac_ad' = ad
         /\ mac_sel' = DetectionSelects(mac_id, mac_out.mac, ad)
    /\ UNCHANGED <<drvVars, keyVars, client, device, respVars, authenticated,
                   sessVars, ctrVars, linkVars, inflight, dev, histVars,
                   scanVars, vfVars, twoVars, mac_id, mac_out, ringVars, coordVars>>

NextMac == Mac_Derive \/ Mac_Detect

\* the derivation and the first detection, for every tile id
SpecMac == InitMac /\ [][NextMac]_vars

(***************************************************************************)
(* TileBleClient._build_ring_command by itself, for every volume and every  *)
(* duration a byte can hold.                                                *)
(***************************************************************************)
\* class TileVolume(IntEnum)
Volumes == {"LOW", "MED", "HIGH"}
VolumeValue(v) == CASE v = "LOW" -> 1 [] v = "MED" -> 2 [] v = "HIGH" -> 3
\* the values bytes([...]) takes for duration_seconds
Durations == 0..255

\* (variant: volume and duration change places)
RingCommandPayload_Swapped(volume, duration_seconds) ==
    RingPayload(duration_seconds, VolumeValue(volume))
\* cmd_payload of _build_ring_command(volume, duration_seconds)
RingCommandPayload(volume, duration_seconds) ==
    RingPayload(VolumeValue(volume), duration_seconds)

InitRing ==
    /\ InitOther /\ rx_counter = 0 /\ mac_id = ExampleId
    /\ channel_key \in VfKeys
    /\ rc_volume \in Volumes
    /\ rc_duration \in Durations
    /\ CoordDefaults

\* one call of _build_ring_command(volume, duration_seconds)
BuildRingCommand_Apply ==
    /\ tx_counter < MaxSigned
    /\ tx_counter' = tx_counter + 1
    /\ rc_cmd' = SignedFrame(channel_byte, channel_key, tx_counter + 1,
                             RingCommandPayload(rc_volume, rc_duration))
    /\ UNCHANGED <<drvVars, keyVars, client, device, respVars, authenticated,
                   sessVars, rx_counter, linkVars, inflight, dev, histVars,
                   scanVars, vfVars, twoVars, macVars, rc_volume, rc_duration,
                   coordVars>>

NextRing == BuildRingCommand_Apply

\* _build_ring_command called up to MaxSigned times in a session
SpecRing == InitRing /\ [][NextRing]_vars

(***************************************************************************)
(* The coordinator: ring_device and stop_ring_device over the BLE helpers  *)
(* _ring_tile_ble and _stop_ring_tile_ble and the cloud device command.    *)
(***************************************************************************)
\* calls of ring_device and stop_ring_device in a run
MaxCoordCalls == 2
\* provider: "tile" or "jiobit"
Providers == {"tile", "jiobit"}
\* what _get_tile_auth_data gives: (None, None), (key, None), (key, id)
TileAuth == {"none", "key", "both"}
\* what the BLE operation gives its caller: ring_tile_ble catches every
\* exception, stop_ring_tile_ble has a finally clause only
BleResults(o) ==
    IF o = "ring" THEN {"true", "false"} ELSE {"true", "false", "raise"}
\* the guards of _ring_tile_ble and _stop_ring_tile_ble before the BLE call
BleReady == ble_module /\ bleak_available /\ tile_auth = "both"
\* (variant: any return of the helper counts as success)
BleSucceeded_Always(r) == r \in {"true", "false"}
\* if ble_success: return True
BleSucceeded(r) == r = "true"
\* send_device_command(device_id, cid, provider, feature_id=1, enable=...)
DeviceCommand(o, p) == [provider |-> p, feature_id |-> 1, enable |-> (o = "ring")]

InitCoord ==
    /\ InitOther /\ channel_key = EmptyB /\ rx_counter = 0 /\ mac_id = ExampleId
    /\ RingDefaults
    /\ ble_module \in BOOLEAN /\ bleak_available \in BOOLEAN
    /\ tile_auth \in TileAuth

\* ring_device or stop_ring_device up to its first await
DeviceCall ==
    /\ cd_pc = "idle"
    /\ cd_calls < MaxCoordCalls
    /\ \E p \in Providers :
         /\ provider' = p
         /\ cd_pc' = IF p = "tile" THEN "cd_ble" ELSE "cd_cloud"
    /\ cd_calls' = cd_calls + 1
    /\ ble_success' = "none" /\ cloud' = <<>> /\ cd_result' = "pending"
    /\ UNCHANGED <<ble_module, bleak_available, tile_auth>>
    /\ UNCHANGED <<drvVars, keyVars, client, device, respVars, authenticated,
                   sessVars, ctrVars, linkVars, inflight, dev, histVars,
                   scanVars, vfVars, twoVars, macVars, ringVars>>

\* ring_device(device_id, cid, provider)
RingDevice_Start ==
    /\ cd_op' = "ring"
    /\ DeviceCall
\* stop_ring_device(device_id, cid, provider)
StopRingDevice_Start ==
    /\ cd_op' = "stop"
    /\ DeviceCall

\* the await of the BLE helper and the test of what it gave
BleHelper ==
    /\ cd_pc = "cd_ble"
    /\ \E r \in (IF BleReady THEN BleResults(cd_op) ELSE {"false"}) :
         /\ ble_success' = r
         /\ IF r = "raise"
            THEN cd_result' = "raise" /\ cd_pc' = "idle"
            ELSE IF BleSucceeded(r)
                 THEN cd_result' = "true" /\ cd_pc' = "idle"
                 ELSE cd_pc' = "cd_cloud" /\ UNCHANGED cd_result
    /\ UNCHANGED <<ble_module, bleak_available, tile_auth, cd_op, provider, cloud,
                   cd_calls>>
    /\ UNCHANGED <<drvVars, keyVars, client, device, respVars, authenticated,
                   sessVars, ctrVars, linkVars, inflight, dev, histVars,
                   scanVars, vfVars, twoVars, macVars, ringVars>>

\* ble_success = await self._ring_tile_ble(device_id, cid)
RingDevice_Ble ==
    /\ cd_op = "ring"
    /\ BleHelper
\* ble_success = await self._stop_ring_tile_ble(device_id, cid)
StopRingDevice_Ble ==
    /\ cd_op = "stop"
    /\ BleHelper

\* return await self.send_device_command(...): True on HTTP success, else False
SendDeviceCommand ==
    /\ cd_pc = "cd_cloud"
    /\ cloud' = Append(cloud, DeviceCommand(cd_op, provider))
    /\ \E ok \in BOOLEAN : cd_result' = IF ok THEN "true" ELSE "false"
    /\ cd_pc' = "idle"
    /\ UNCHANGED <<ble_module, bleak_available, tile_auth, cd_op, provider,
                   ble_success, cd_calls>>
    /\ UNCHANGED <<drvVars, keyVars, client, device, respVars, authenticated,
                   sessVars, ctrVars, linkVars, inflight, dev, histVars,
                   scanVars, vfVars, twoVars, macVars, ringVars>>

NextCoord ==
    \/ RingDevice_Start
    \/ StopRingDevice_Start
    \/ RingDevice_Ble
    \/ StopRingDevice_Ble
    \/ SendDeviceCommand

\* ring_device and stop_ring_device called up to MaxCoordCalls times
SpecCoord == InitCoord /\ [][NextCoord]_vars

(***************************************************************************)
(* Properties.                                                             *)
(***************************************************************************)
\* the frames written since the latest authenticate started
SinceHandshake == { i \in 1..Len(wire) : i > hs.start }
\* ring_tile_ble / stop_ring_tile_ble has returned
Returned == op \in {"ring", "stop"} /\ pc = "idle" /\ result # "pending"
\* every field of the session is as __init__ leaves it
SessionFresh ==
    /\ rand_a = EmptyB /\ rand_t = EmptyB
    /\ channel_key = EmptyB /\ channel_byte = 0 /\ channel_data = EmptyB
    /\ tx_counter = 0 /\ rx_counter = 0

\* C1: when ring_tile_ble or stop_ring_tile_ble has returned, no GATT link the
\* operation opened is still open, whichever way it ended.
C1_LinkClosedOnReturn == Returned => links = {}

\* C2: every HMAC-signed frame written (establish, params, song, ring) was
\* signed with a channel key derived on the link it is written to, after sres_t
\* was verified on that link.
C2_SignedWithVerifiedKey ==
    \A i \in 1..Len(wire) :
        wire[i].ctr # 0 => (wire[i].keyLink = wire[i].link /\ wire[i].keyVerified)

\* C3: in every invocation of authenticate, when sres_t differs from expected_1
\* the invocation returns False, the client is not marked authenticated and no
\* channel-open, channel-establish or ring frame is written after its start.
C3_MismatchFails ==
    hs.mismatch =>
        /\ hs.res = "false"
        /\ ~authenticated
        /\ \A i \in SinceHandshake : wire[i].kind \notin {"open", "establish", "ring"}

\* C4: within one session (one link) the counters used to sign successive
\* frames are at least 1, strictly increasing, and never ahead of tx_counter:
\* the counter is incremented before each use and no value is used twice.
C4_TxCountersIncrease ==
    /\ \A i \in 1..Len(signedCtrs) : 1 <= signedCtrs[i] /\ signedCtrs[i] <= tx_counter
    /\ \A i \in 1..(Len(signedCtrs) - 1) : signedCtrs[i] < signedCtrs[i + 1]
\* C4 witness: a session in which establish, params, song and ring were all
\* signed, the ring frame with counter 4.
C4_Witness ==
    /\ Len(signedCtrs) = 4
    /\ \E i \in 1..Len(wire) : wire[i].kind = "ring" /\ wire[i].ctr = 4

\* C5: every channel-establish frame is signed with tx_counter = 1, in every
\* session, a re-run of authenticate on the same client included.
C5_EstablishSignedWithOne ==
    \A i \in 1..Len(wire) : wire[i].kind = "establish" => wire[i].ctr = 1

\* C6: after disconnect() (the teardown of ring_tile_ble and stop_ring_tile_ble)
\* rand_a, rand_t, channel_byte, channel_data and channel_key are discarded and
\* tx_counter and rx_counter are 0.
C6_DisconnectClearsSession == pc \in {"rt_done", "so_done"} => SessionFresh

\* C7: a TDI response that is empty or shorter than 5 bytes makes authenticate
\* return False with no nonce frame written; a nonce response whose auth_data
\* has a length that is neither 15 nor at least 17 makes it return False with
\* no channel-open or channel-establish frame written.
C7_MalformedAborts ==
    /\ hs.tdiLen \in 0..4 =>
         /\ hs.res = "false"
         /\ \A i \in SinceHandshake : wire[i].kind \notin {"nonce", "open", "establish"}
    /\ (hs.nonceLen >= 0 /\ hs.nonceLen # 15 /\ hs.nonceLen < 17) =>
         /\ hs.res = "false"
         /\ \A i \in SinceHandshake : wire[i].kind \notin {"open", "establish"}
\* C7 witness: a 1-byte TDI response ended one handshake
C7_WitnessTdi == hs.tdiLen = 1 /\ hs.res = "false"
\* C7 witness: a nonce response with 16 bytes of auth_data ended one handshake
\* after the nonce frame was written
C7_Witness ==
    /\ hs.nonceLen = 16 /\ hs.res = "false"
    /\ \E i \in SinceHandshake : wire[i].kind = "nonce"

\* C8: a response of either shape (15-byte TOA, legacy of at least 17 bytes)
\* whose sres_t was produced with the correct auth_key is verified.
C8_BothShapesVerified ==
    (hs.shape \in {"toa", "legacy"} /\ hs.honest) => hs.verified

\* C9: ring_tile_ble and stop_ring_tile_ble given an auth_key that is not 16
\* bytes long do no radio I/O (no scan, no connection, no frame).
C9_BadKeyNoRadio == (op \in {"ring", "stop"} /\ keyLen # KeyLen) => ~radio

\* C10: when a response with command byte 0x05 arrived after the ring frame was
\* written, ring_tile_ble returns the unsupported-feature result.
C10_SongErrorReported ==
    (op = "ring" /\ pc = "idle" /\ songErrAfterRing) => result = "unsupported"

\* C11: when the channel-establish write succeeded and the 2-second wait ended
\* with no response, or with a response whose HMAC fails verification,
\* authenticate does not fail for it, and the ring_tile_ble that ran this
\* handshake returns True exactly when the ring frame was then written.
C11_WarningDoesNotAbort ==
    hs.est \in {"timeout", "badhmac"} =>
        /\ hs.res # "false"
        /\ (op = "ring" /\ Returned /\ radio) => (result = "true" <=> RingWritten)
\* C11 witness: ring_tile_ble returned True after a channel-establish response
\* whose HMAC failed verification.
C11_Witness ==
    /\ op = "ring" /\ Returned /\ result = "true"
    /\ hs.est = "badhmac" /\ RingWritten
\* C11 witness: the same after a wait that ended with no response.
C11_WitnessTimeout ==
    /\ op = "ring" /\ Returned /\ result = "true"
    /\ hs.est = "timeout" /\ RingWritten


\* scan_for_tile has returned to ring_tile_ble
ScanDone ==
    \/ pc \in {"rt_scanned", "co_establish", "dc", "rt_done"}
    \/ pc = "idle" /\ op = "ring" /\ radio
\* no advertisement seen by the scan passed any test of detection_callback
NoMatchSeen == \A ad \in seen : ~Matches(ad)

\* C12: when the scan ends with no advertisement that matched any test, it ran
\* until the timeout and returned no device, and ring_tile_ble returns False
\* without a call of connect.
C12_NoMatchNoConnect ==
    (ScanDone /\ NoMatchSeen) =>
        /\ elapsed >= ScanTimeout
        /\ found_device = NoAddress
        /\ pc # "co_establish" /\ nextLink = 1 /\ client = NoClient
        /\ Returned => result = "false"
C12_Witness ==
    /\ Returned /\ radio /\ result = "false"
    /\ seen # {} /\ NoMatchSeen /\ elapsed >= ScanTimeout

\* an advertisement with the service uuid and the derived address was seen
ExactSeen == \E ad \in seen : IsExact(ad)
\* an advertisement with the service uuid and another address was seen
UuidFallbackSeen == \E ad \in seen : IsTileService(ad) /\ ~IsDerivedMac(ad)

C14_FallbackKeepsScanning ==
    [][(UuidFallbackSeen /\ pc = "sc_check" /\ pc' = "sc_stop")
          => (ExactSeen \/ elapsed >= ScanTimeout)]_vars

\* no advertisement from the derived address was seen (so no exact match)
DerivedNotSeen == \A ad \in seen : ~IsDerivedMac(ad)

\* C15: when the scan returns without an exact match although a device with
\* the service uuid was seen, the device returned is one that advertised the
\* service uuid, not one that matched only by address or name substring.
C15_BestFallbackReturned ==
    (pc = "rt_scanned" /\ DerivedNotSeen /\ UuidFallbackSeen) =>
        \E ad \in seen : ad.addr = ret /\ IsTileService(ad)

\* _verify_response_hmac has been called
VfCalled == vf_response # EmptyB
\* response[1:-4], the data the digest of a response covers
VfDataOf(response) == Slice(response, 1, LenB(response) - 4)

\* C16: a call of _verify_response_hmac that succeeds leaves rx_counter one
\* higher, and the digest it accepted is the one of the incremented counter; a
\* call that fails, by a digest mismatch or on a response shorter than 6 bytes,
\* leaves rx_counter as it was.
C16_RxCounterEffect ==
    VfCalled =>
        /\ vf_verified =>
             /\ rx_counter = vf_rx_before + 1
             /\ Tail4(vf_response) =
                  Slice(Hmac(channel_key,
                             BuildHmacMessage(vf_rx_before + 1, VfDataOf(vf_response), TRUE)),
                        0, 4)
        /\ ~vf_verified => rx_counter = vf_rx_before
        /\ LenB(vf_response) < 6 => ~vf_verified
C16_Witness ==
    /\ VfCalled /\ ~vf_verified /\ LenB(vf_response) >= 6
    /\ vf_accepted # {} /\ rx_counter = vf_rx_before
C16_WitnessVerified ==
    VfCalled /\ vf_verified /\ rx_counter = vf_rx_before + 1
C16_WitnessShort ==
    VfCalled /\ LenB(vf_response) < 6 /\ rx_counter = vf_rx_before /\ vf_rx_before > 0

\* C17 as stated: a response channel_byte || data || HMAC(channel_key,
\* message(n, 0, data))[:4], whatever its data, is verified exactly when
\* rx_counter was n - 1 before the call.
C17_RoundTrip ==
    \A n \in VfCounters, d \in VfData :
        vf_response = SignedResponse(DevChannelByte, channel_key, n, d)
            => (vf_verified <=> vf_rx_before = n - 1)
\* C17, amended: such a response with at least one byte of data (6 bytes or
\* more in all) is verified when rx_counter was n - 1 before the call and
\* rejected when rx_counter had any other value.
C17_RoundTripNonEmpty ==
    \A n \in VfCounters, d \in VfData :
        (LenB(d) >= 1 /\ vf_response = SignedResponse(DevChannelByte, channel_key, n, d))
            => (vf_verified <=> vf_rx_before = n - 1)
C17_Witness ==
    \E n \in VfCounters, d \in VfData :
        /\ LenB(d) >= 1
        /\ vf_response = SignedResponse(DevChannelByte, channel_key, n, d)
        /\ vf_rx_before = n - 1 /\ vf_verified /\ n > 1
C17_WitnessRejected ==
    \E n \in VfCounters, d \in VfData :
        /\ LenB(d) >= 1
        /\ vf_response = SignedResponse(DevChannelByte, channel_key, n, d)
        /\ vf_rx_before # n - 1 /\ ~vf_verified

\* C18: a response that _verify_response_hmac has verified in this session is
\* rejected when it is presented again.
C18_ReplayRejected == (VfCalled /\ vf_replay) => ~vf_verified
C18_Witness ==
    /\ VfCalled /\ vf_replay /\ ~vf_verified
    /\ vf_response \in vf_accepted /\ rx_counter = vf_rx_before

\* the stop frame was written to the Tile during this operation
StopWritten == \E i \in 1..Len(wire) : wire[i].kind = "stop"

\* C19: stop_ring_tile_ble returns True only when the write of the stop frame
\* went through; a write that failed is reported as a failure.
C19_StopWriteFailureReported ==
    (op = "stop" /\ Returned /\ result = "true") => StopWritten

\* C20: in stop_ring_tile_ble, once connect has succeeded and while the link is
\* up, stop_ring is called whatever authenticate returned: a failed handshake
\* or channel establishment does not keep the stop frame from being written.
C20_StopWithoutAuth ==
    [][(pc = "so_authed" /\ ret = "false" /\ IsConnected) => pc' = "st_begin"]_vars

\* the latest frame written is the stop frame
StopIsLatest == Len(wire) > 0 /\ wire[Len(wire)].kind = "stop"

\* C21: the stop frame written is the bytes 00 FF FF FF FF 18 02 and nothing
\* more (no channel byte, no signature, no counter used), and no step of
\* stop_ring changes tx_counter or rx_counter.
C21_StopFrameUnsigned ==
    /\ [](StopIsLatest =>
            /\ lastData = B(<<0, 255, 255, 255, 255, 24, 2>>)
            /\ wire[Len(wire)].ctr = 0)
    /\ [][(pc \in {"st_begin", "st_wait"}) => UNCHANGED ctrVars]_vars
C21_Witness ==
    /\ StopIsLatest /\ pc = "st_wait" /\ op = "stop"
    /\ tx_counter > 0 /\ lastData = B(<<0, 255, 255, 255, 255, 24, 2>>)

\* the session fields of invocation i's client
SessionOf(i) == objs[inv[i].client]

\* C22: every ring_tile_ble invocation starts with tx_counter = 0 and
\* rx_counter = 0, and a step of one invocation (a client made, a nonce drawn,
\* a frame signed, a response verified, a return) leaves the counters, rand_a
\* and channel_key of every other running invocation as they were.
C22_SessionsPrivate ==
    /\ [](\A i \in Invocations :
            inv[i].pc = "new" =>
                (SessionOf(i).tx_counter = 0 /\ SessionOf(i).rx_counter = 0))
    /\ [][\A i \in Invocations :
            (inv[i].pc # "idle" /\ actor' # i) =>
                objs'[inv[i].client] = objs[inv[i].client]]_vars
C22_Witness ==
    /\ inv[1].pc = "authed" /\ inv[2].pc = "authed"
    /\ inv[1].client # inv[2].client
    /\ SessionOf(1).auth_key = SessionOf(2).auth_key
    /\ SessionOf(1).tx_counter = MaxSigned /\ SessionOf(2).tx_counter = 0
    /\ SessionOf(1).rx_counter = 0 /\ SessionOf(2).rx_counter = 1

\* C23: in ring_tile_ble and stop_ring_tile_ble, once a wait of the handshake
\* (for the TDI, the nonce or the channel-open response) has ended without a
\* response, authenticate has returned False, nothing more is written to the
\* Tile, and the operation returns False with its link closed.
C23_TimeoutAborts ==
    /\ []((op \in {"ring", "stop"} /\ hs.timedOut) =>
            /\ hs.res = "false"
            /\ (Returned /\ radio) => (result = "false" /\ links = {}))
    /\ [][(op \in {"ring", "stop"} /\ pc # "idle" /\ hs.timedOut) => wire' = wire]_vars
C23_Witness ==
    /\ op = "ring" /\ Returned /\ result = "false" /\ links = {}
    /\ hs.timedOut /\ hs.verified /\ Len(wire) = 3
C23_WitnessTdi ==
    /\ op = "stop" /\ Returned /\ result = "false" /\ hs.timedOut /\ Len(wire) = 1
C23_WitnessNonce ==
    /\ op = "ring" /\ Returned /\ result = "false" /\ hs.timedOut /\ Len(wire) = 2

\* connect has returned to its caller
ConnectReturned == pc \in {"api_idle", "rt_connected", "so_connected"}

\* C24: a TileBleClient never has two GATT links open, and when connect has
\* returned every open link is the one self._client refers to.
C24_OneLinkOwned ==
    /\ Cardinality(links) <= 1
    /\ ConnectReturned => links \subseteq {client}
\* C24, second connect only: a connect on a client that is connected does not
\* leave two links open.
C24_AtMostOneLink == Cardinality(links) <= 1
\* the tile id has fewer than 12 characters once normalised
ShortId == Len(NormalizeText(mac_id)) < 12
\* C25 (as stated): a tile id of fewer than 12 hex characters makes the
\* derivation fail, and no advertisement is selected through that id: a
\* selected advertisement can only be one that carries the Tile service
C25_ShortIdRejected ==
    (ShortId /\ mac_out # NoMac) => (mac_out.kind = "raise" /\ (mac_sel => mac_ad.uuid))
\* the part of C25 about the scan alone
C25_ShortIdNeverSelects == (ShortId /\ mac_sel) => mac_ad.uuid

\* the value of an uppercase hex digit, and byte k of a printed address
HexUpperVal(c) == (CHOOSE i \in 1..16 : HexUpper[i] = c) - 1
MacByte(mac, k) == 16 * HexUpperVal(mac[3 * k - 2]) + HexUpperVal(mac[3 * k - 1])
\* the tile id is at least 12 hex characters once normalised
HexId ==
    /\ Len(NormalizeText(mac_id)) >= 12
    /\ \A i \in 1..12 : NormalizeText(mac_id)[i] \in HexLowerSet
\* C26: for a tile id of at least 12 hex characters the derived address is
\* six bytes printed as pairs joined by colons; its first byte has the two top
\* bits set and the low six bits of the id's first byte, its other five bytes
\* are the id's; the id 03a757b8479cbdfc gives C3:A7:57:B8:47:9C
C26_DerivedAddress ==
    (HexId /\ mac_out # NoMac) =>
        /\ mac_out.kind = "ok"
        /\ Len(mac_out.mac) = 17
        /\ \A k \in 1..5 : mac_out.mac[3 * k] = ":"
        /\ MacByte(mac_out.mac, 1) \div 64 = 3
        /\ MacByte(mac_out.mac, 1) % 64 = ByteFromHex(NormalizeText(mac_id), 1) % 64
        /\ \A k \in 2..6 : MacByte(mac_out.mac, k) = ByteFromHex(NormalizeText(mac_id), k)
        /\ (mac_id = ExampleId => mac_out.mac = <<"C", "3", ":", "A", "7", ":", "5", "7", ":", "B", "8", ":", "4", "7", ":", "9", "C">>)
\* the example id has been derived
C26_Witness == mac_id = ExampleId /\ mac_out.kind = "ok" /\ mac_out.mac = <<"C", "3", ":", "A", "7", ":", "5", "7", ":", "B", "8", ":", "4", "7", ":", "9", "C">>
\* an id whose first byte has the second bit clear but the top bit set
C26_WitnessTopBit ==
    /\ mac_out.kind = "ok" /\ Len(mac_out.mac) = 17
    /\ ByteFromHex(NormalizeText(mac_id), 1) = 128 + 35
    /\ MacByte(mac_out.mac, 1) = 192 + 35

\* the message _verify_response_hmac built in the last call, and the one
\* _build_hmac_message gives for the same counter and data when sending
VfMessage(is_rx) == BuildHmacMessage(vf_rx_before + 1, VfDataOf(vf_response), is_rx)
\* the layout of a message m for counter n, direction byte d and data x:
\* four counter bytes, least significant first, d, len(x), x, then zeros
MessageLayout(m, n, d, x) ==
    /\ ByteAt(m, 0) + 256 * ByteAt(m, 1) + 65536 * ByteAt(m, 2) + 16777216 * ByteAt(m, 3) = n
    /\ \A i \in 0..3 : ByteAt(m, i) \in 0..255
    /\ ByteAt(m, 4) = d
    /\ ByteAt(m, 5) = LenB(x)
    /\ Slice(m, 6, 6 + LenB(x)) = x
    /\ \A i \in (6 + LenB(x))..(LenB(m) - 1) : ByteAt(m, i) = 0
C27_WitnessLong ==
    /\ VfCalled /\ vf_verified
    /\ VfDataOf(vf_response) = LongData /\ LenB(VfMessage(TRUE)) = 33

\* the texts of the keys the session holds, as bytes.hex() prints them
KeyTexts ==
    {HexText(auth_key)} \cup (IF channel_key = EmptyB THEN {} ELSE {HexText(channel_key)})
\* C28: during ring and stop no log record carries the text of auth_key or of
\* channel_key
C28_KeysNotLogged ==
    (op \in {"ring", "stop"}) => \A r \in hs.log : r.text \notin KeyTexts
\* the part of C28 about channel_key alone
C28_ChannelKeyNotLogged ==
    (op \in {"ring", "stop"} /\ channel_key # EmptyB) =>
        \A r \in hs.log : r.text # HexText(channel_key)

\* C29: for every volume and every duration from 0 to 255 the command of
\* _build_ring_command is the channel byte, the five bytes 05 02 01 volume
\* duration, and the first four bytes of the HMAC, under the channel key, of
\* the message for the incremented tx counter and those five bytes; HIGH puts
\* 3 in the fourth byte of the payload and 10 seconds puts 10 in the fifth
C29_RingCommandBytes ==
    rc_cmd # EmptyB =>
        /\ LenB(rc_cmd) = 10
        /\ ByteAt(rc_cmd, 0) = channel_byte
        /\ ByteAt(rc_cmd, 1) = 5 /\ ByteAt(rc_cmd, 2) = 2 /\ ByteAt(rc_cmd, 3) = 1
        /\ ByteAt(rc_cmd, 4) = (IF rc_volume = "LOW" THEN 1 ELSE IF rc_volume = "MED" THEN 2 ELSE 3)
        /\ ByteAt(rc_cmd, 5) = rc_duration
        /\ (rc_volume = "HIGH" /\ rc_duration = 10) => Slice(rc_cmd, 1, 6) = B(<<5, 2, 1, 3, 10>>)
        /\ Tail4(rc_cmd) =
             Slice(Hmac(channel_key, BuildHmacMessage(tx_counter, Slice(rc_cmd, 1, 6), FALSE)), 0, 4)
\* the command for HIGH and 10 seconds has been built, as the second of the
\* session
C29_Witness ==
    /\ rc_volume = "HIGH" /\ rc_duration = 10 /\ tx_counter = 2
    /\ Slice(rc_cmd, 1, 6) = B(<<5, 2, 1, 3, 10>>)
\* the command for LOW and 255 seconds
C29_WitnessMax ==
    rc_volume = "LOW" /\ rc_duration = 255 /\ Slice(rc_cmd, 1, 6) = B(<<5, 2, 1, 1, 255>>)

\* the kinds of the frames written, in order, and those of the five steps
WireKinds == [i \in 1..Len(wire) |-> wire[i].kind]
StepKinds == <<"tdi", "nonce", "open", "establish", "ring">>
StepsWritten ==
    SelectSeq(WireKinds, LAMBDA k : k \in {"tdi", "nonce", "open", "establish", "ring"})
KindWritten(k) == \E i \in 1..Len(wire) : wire[i].kind = k
\* C30: in one ring_tile_ble the frames of the five steps are written in the
\* order TDI request, nonce, channel-open, channel-establish, ring, each once
\* at most and none skipped; the nonce only after a TDI response of five bytes
\* or more, the channel-open only after the Tile's signature matched, the
\* channel-establish only after the channel key was derived from a channel-open
\* response on this link, the ring frame only after the channel-establish was
\* written; every frame goes to the open link, and once an operation that
\* wrote a frame has returned the link is closed
C30_FrameOrder ==
    /\ [](op = "ring" =>
            /\ StepsWritten = SubSeq(StepKinds, 1, Len(StepsWritten))
            /\ KindWritten("nonce") => hs.tdiLen >= 5
            /\ KindWritten("open") => hs.verified
            /\ \A i \in 1..Len(wire) :
                 wire[i].kind = "establish" =>
                     /\ channel_key # EmptyB
                     /\ wire[i].keyLink = wire[i].link /\ wire[i].keyVerified
            /\ KindWritten("ring") => KindWritten("establish")
            /\ (Returned /\ radio /\ Len(wire) > 0) => links = {})
    /\ [][(op = "ring" /\ Len(wire') > Len(wire)) => (wire'[Len(wire')].link = client /\ client \in links)]_vars
\* a ring that returned True after all five steps, with the link closed
C30_Witness ==
    /\ op = "ring" /\ Returned /\ result = "true" /\ links = {}
    /\ StepsWritten = StepKinds
\* a ring that stopped after the channel-open frame
C30_WitnessStopped ==
    /\ op = "ring" /\ Returned /\ result = "false" /\ links = {}
    /\ StepsWritten = <<"tdi", "nonce", "open">>

\* the frames of the handshake in progress (those written since it began)
HandshakeFrames == {i \in 1..Len(wire) : i > hs.start}
\* the responses a step of authenticate took were replies to its own frame
StepTookOwnReply(step) == \A t \in hs.took : t.step = step => t.src = t.cmd
\* the channel-open response at the head of the queue, as _open_channel reads it
OpenResponse == Head(response_queue)
\* C31: the nonce frame and the channel-open frame of a handshake carry the
\* rand_a the client holds, rand_a is set only when the nonce frame is built
\* (a new client starts with none),
\* and when the channel key is set it is the first 16 bytes of
\* HMAC(auth_key, rand_a || channel_data || channel_byte || connection id), with
\* channel_byte and channel_data the bytes 6 and 7.. of the channel-open
\* response just taken from the queue and rand_a the one of the frames; the
\* queue was emptied when the channel-open frame of this handshake was
\* written, and within ring_tile_ble and stop_ring_tile_ble the response taken
\* is the Tile's reply to that frame
C31_OneNonce ==
    /\ [][(pc = "au_nonce_wait" /\ pc' = "au_open_wait") => response_queue' = <<>>]_vars
    /\ []((op \in {"ring", "stop"}) => StepTookOwnReply("open"))
    /\ [](\A i \in HandshakeFrames :
            /\ wire[i].kind = "nonce" => wire[i].data = B(<<0, 255, 255, 255, 255, 20>> \o rand_a.lit)
            /\ wire[i].kind = "open" => wire[i].data = B(<<0, 255, 255, 255, 255, 16>> \o rand_a.lit))
    /\ [][(rand_a' # rand_a /\ rand_a' # EmptyB) => (pc = "au_tdi_wait" /\ LenB(rand_a') = 14)]_vars
    /\ [][(channel_key' # channel_key /\ channel_key' # EmptyB) =>
            /\ pc = "au_open_wait" /\ rand_a' = rand_a /\ response_queue # <<>>
            /\ channel_byte' = ByteAt(OpenResponse, 6)
            /\ channel_data' = Slice(OpenResponse, 7, LenB(OpenResponse))
            /\ channel_key'.lit = <<>>
            /\ channel_key'.dig = <<[k |-> auth_key, lo |-> 0, hi |-> 16,
                                    m |-> B(rand_a.lit \o channel_data'.lit
                                            \o <<channel_byte'>> \o <<0, 255, 255, 255, 255>>)]>>]_vars
\* a key derived in a handshake whose nonce and channel-open frames were written
C31_Witness ==
    /\ channel_key # EmptyB /\ hs.verified
    /\ \E t \in hs.took : t.step = "open" /\ t.src = t.cmd
    /\ \E i, j \in HandshakeFrames :
         /\ i < j /\ wire[i].kind = "nonce" /\ wire[j].kind = "open"
         /\ wire[i].data = B(<<0, 255, 255, 255, 255, 20>> \o rand_a.lit)
    /\ channel_key.dig[1].m = B(rand_a.lit \o channel_data.lit \o <<channel_byte>> \o <<0, 255, 255, 255, 255>>)

\* C37 (as stated): every response a step of authenticate takes (TDI, nonce,
\* channel-open, channel-establish) is the notification the Tile sent in reply
\* to the frame that step wrote
C37_ResponseBelongsToStep == \A t \in hs.took : t.src = t.cmd
\* C37 within ring_tile_ble and stop_ring_tile_ble, where each invocation has a
\* client of its own
C37_ResponseBelongsToStepOneShot ==
    (op \in {"ring", "stop"}) => \A t \in hs.took : t.src = t.cmd
\* a ring whose four steps each took the reply to their own frame
C37_WitnessOneShot ==
    /\ op = "ring" /\ hs.est = "verified"
    /\ {t.step : t \in hs.took} = {"tdi", "nonce", "open", "establish"}
    /\ \A t \in hs.took : t.src = t.cmd

\* C37, step by step
C37_Tdi == StepTookOwnReply("tdi")
C37_Nonce == StepTookOwnReply("nonce")
C37_Open == StepTookOwnReply("open")
C37_Establish == StepTookOwnReply("establish")

\* C32: when authenticate has returned False the client is not marked
\* authenticated
C32_FailedAuthClearsFlag == (hs.res = "false") => ~authenticated
\* C32, for a client that was not marked authenticated when authenticate began
C32_FailedFirstAuthClearsFlag ==
    (hs.res = "false" /\ ~hs.wasAuth) => ~authenticated

\* C33: a client marked authenticated has an open connection
C33_AuthenticatedIsConnected == authenticated => IsConnected
\* C33 within ring_tile_ble and stop_ring_tile_ble
C33_AuthenticatedIsConnectedOneShot ==
    (op \in {"ring", "stop"} /\ authenticated) => IsConnected

\* the response presented is a frame the client signs for sending, with
\* counter n, under the key of the session
IsReflected(n) == vf_response = SignedFrame(DevChannelByte, channel_key, n, B(<<1>>))
\* C34: a frame signed for sending (direction byte 1) and presented as a
\* response is not verified, whatever its counter, the counter rx_counter + 1
\* that a response is checked against included; rx_counter stays as it was
C34_ReflectionRejected ==
    \A n \in VfCounters :
        IsReflected(n) => (~vf_verified /\ rx_counter = vf_rx_before)
\* a reflected frame whose counter is the one the next response must carry
C34_Witness ==
    /\ IsReflected(vf_rx_before + 1) /\ ~vf_verified
    /\ vf_rx_before > 0 /\ rx_counter = vf_rx_before

\* C35: when the signature is verified by a client that holds a cached
\* known_auth_method, on_auth_success is not called; in any authenticate it is
\* called once at most
C35_CachedMethodNoCallback ==
    /\ (known_auth_method # 0 /\ hs.verified) => hs.callbacks = 0
    /\ hs.callbacks <= 1
\* the part of C35 that bounds the calls
C35_CallbackAtMostOnce == hs.callbacks <= 1

\* C36: within ring_tile_ble and stop_ring_tile_ble the signed frames written
\* carry the counters 1, 2, 3, ... in order, none left out
C36_ConsecutiveCounters ==
    (op \in {"ring", "stop"}) => \A i \in 1..Len(signedCtrs) : signedCtrs[i] = i

\* a call of ring_device or stop_ring_device for a Tile has returned
TileCallReturned == provider = "tile" /\ cd_pc = "idle" /\ cd_op # "none"

\* C38: for a Tile, ring_device and stop_ring_device await the BLE helper
\* before anything else; the cloud command (feature 1, enable for ring,
\* disable for stop) is sent exactly when the helper returned False, and when
\* the helper returned True the call returns True with no cloud command sent
C38_CloudIffBleFailed ==
    provider = "tile" =>
        /\ cd_pc = "cd_cloud" => ble_success = "false"
        /\ cloud # <<>> =>
              /\ ble_success = "false"
              /\ cloud = <<DeviceCommand(cd_op, "tile")>>
        /\ TileCallReturned => (ble_success = "false" <=> Len(cloud) = 1)
        /\ (TileCallReturned /\ ble_success = "true") =>
              (cd_result = "true" /\ cloud = <<>>)
\* C38 (witness): a stop for a Tile whose BLE helper returned False has sent
\* the cloud command with enable = False, in the second call of the run
C38_Witness ==
    /\ TileCallReturned /\ cd_op = "stop" /\ cd_calls = 2
    /\ BleReady /\ ble_success = "false"
    /\ cloud = <<[provider |-> "tile", feature_id |-> 1, enable |-> FALSE]>>
\* C38 (witness): a ring for a Tile whose BLE helper returned True has
\* returned True without a cloud command
C38_WitnessBleSucceeded ==
    /\ TileCallReturned /\ cd_op = "ring"
    /\ ble_success = "true" /\ cd_result = "true" /\ cloud = <<>>
\* C38 (witness): stop_ring_tile_ble raised, stop_ring_device raised with it
\* and no cloud command was sent
C38_WitnessRaised ==
    /\ TileCallReturned /\ cd_op = "stop"
    /\ ble_success = "raise" /\ cd_result = "raise" /\ cloud = <<>>
\* scan_for_tile is between its start and its return
InScan == pc \in {"sc_start", "sc_check", "sc_sleep", "sc_stop"}
\* scan_for_tile has returned to ring_tile_ble, with a device or with None
ScanReturned == pc = "rt_scanned" /\ ~scanning /\ ret = found_device

\* C39: with the polling loop making progress, a scan that was started
\* returns, and a scan in which a candidate is recorded or the timeout is
\* over returns the device recorded or None, whatever advertisements arrive
\* and however long they keep arriving
C39_ScanTerminates ==
    /\ InScan ~> ScanReturned
    /\ (InScan /\ (found_device # NoAddress \/ elapsed >= ScanTimeout))
          ~> ScanReturned
\* C39 (witness): the scan returned None after the timeout, with two
\* advertisements delivered, neither of which passed a test
C39_Witness ==
    /\ ScanReturned /\ ret = NoAddress /\ elapsed >= ScanTimeout
    /\ Cardinality(seen) = 2 /\ heard # <<>>
\* C39 (witness): the scan returned a device before the timeout
C39_WitnessFound ==
    /\ ScanReturned /\ ret # NoAddress /\ elapsed < ScanTimeout
    /\ heard # <<>>
====
